---- MODULE Spec2Model ----
(***************************************************************************)
(* Execute stage of the Minor in-order pipeline (src/cpu/minor/execute.cc): *)
(* issue into functional units, in-order commit, redirects, interrupts and *)
(* the drain state machine.  One Evaluate step is one call of              *)
(* Execute::evaluate; instructions are shared objects, kept in the table   *)
(* insts and named in the queues by their execSeqNum (0 is the bubble).    *)
(***************************************************************************)
EXTENDS Integers, Sequences, FiniteSets, TLC

\* ---------------------------------------------------------------- bounds
MaxInsts == 3
MaxCycle == 6
MaxEnvCalls == 2

\* ------------------------------------------------- configuration (params)
issueLimit == 2
memoryIssueLimit == 1
commitLimit == 2
memoryCommitLimit == 1
numFuncUnits == 2
noCostFUIndex == numFuncUnits + 1
firstStreamSeqNum == 1
firstPredictionSeqNum == 1
processMoreThanOneInput == FALSE
allowEarlyMemIssue == TRUE

Max(a, b) == IF a >= b THEN a ELSE b

Range(q) == {q[i] : i \in 1..Len(q)}

\* The one element of a singleton set: The({e(x) : x \in {v}}) is e(v), with v
\* computed once
The(S) == CHOOSE v \in S : TRUE

\* Functional unit descriptions: operation classes, opLat, and the timing
\* entry (MinorFUTiming) found for an operation class, if any.
NoTiming == [has |-> FALSE, suppress |-> FALSE, extraCommitLat |-> 0,
             extraCommitLatExpr |-> -1, extraAssumedLat |-> 0]

MultTiming == [has |-> TRUE, suppress |-> FALSE, extraCommitLat |-> 1,
               extraCommitLatExpr |-> -1, extraAssumedLat |-> 0]

\* A timing entry with a delay expression, here one that evaluates to 1
DivTiming == [has |-> TRUE, suppress |-> FALSE, extraCommitLat |-> 1,
              extraCommitLatExpr |-> 1, extraAssumedLat |-> 0]

fuDescriptions ==
    [i \in 0..(numFuncUnits - 1) |->
        IF i = 0
        THEN [opClasses |-> {"IntAlu", "IntMult", "IntDiv"}, opLat |-> 2]
        ELSE [opClasses |-> {"IntAlu", "MemRead"}, opLat |-> 1]]

findTiming(fu, opClass) ==
    IF opClass = "IntMult" THEN MultTiming
    ELSE IF opClass = "IntDiv" THEN DivTiming
    ELSE NoTiming

provides(fu, opClass) == opClass \in fuDescriptions[fu].opClasses

RECURSIVE SumLat(_)
SumLat(i) == IF i < 0 THEN 0 ELSE fuDescriptions[i].opLat + SumLat(i - 1)

\* Execute::Execute: capacity of inFlightInsts and inFUMemInsts
total_slots == SumLat(numFuncUnits - 1)

\* ------------------------------------------------------------ data model
Regs == 0..2
ZeroReg == 0

PCState(a) == [pc |-> a, npc |-> a + 1]

\* Where a fault or an interrupt handler starts
FaultPC == PCState(0)

\* A decoded instruction as Decode hands it over: MinorDynInst with its
\* StaticInst flags.  The o* fields fix what the opaque ISA operations will
\* do when Execute calls them (fault raised, next PC, thread suspended,
\* predicate).
BaseInst ==
    [isFault |-> FALSE, opClass |-> "IntAlu", isMemRef |-> FALSE,
     srcRegs |-> {}, destRegs |-> {}, microop |-> "none",
     isSerializeAfter |-> FALSE, isMemBarrier |-> FALSE,
     isPrefetch |-> FALSE, predictedTaken |-> FALSE, predictedTarget |-> 3,
     pc |-> 1, oFault |-> "none", oNpc |-> 2, oSuspend |-> FALSE,
     oPredicate |-> TRUE, oError |-> FALSE]

\* Scheduling fields Execute writes into the instruction
Decoration ==
    [fuIndex |-> 0, extraCommitDelay |-> 0, extraCommitDelayExpr |-> -1,
     minimumCommitCycle |-> 0, inLSQ |-> FALSE, canEarlyIssue |-> FALSE,
     instToWaitFor |-> 0]

NoInst == [present |-> FALSE]

Bubble == 0

tWriteR1 == [BaseInst EXCEPT !.destRegs = {1}]
tReadR1 == [BaseInst EXCEPT !.srcRegs = {1}, !.destRegs = {2}]
tNoCost == [BaseInst EXCEPT !.opClass = "No_OpClass", !.srcRegs = {1}]
tLoad == [BaseInst EXCEPT !.opClass = "MemRead", !.isMemRef = TRUE,
                          !.destRegs = {2}]
tLoadR1 == [tLoad EXCEPT !.srcRegs = {1}]
tLoadRespFault == [tLoad EXCEPT !.oFault = "resp"]
tPrefetchRespFault == [tLoadRespFault EXCEPT !.isPrefetch = TRUE]
tLoadInitFault == [tLoad EXCEPT !.oFault = "exec"]
tLoadNoPred == [tLoad EXCEPT !.oPredicate = FALSE]
tFault == [BaseInst EXCEPT !.isFault = TRUE]
tExecFault == [BaseInst EXCEPT !.oFault = "exec"]
tMult == [BaseInst EXCEPT !.opClass = "IntMult", !.destRegs = {1}]
tDiv == [BaseInst EXCEPT !.opClass = "IntDiv", !.destRegs = {1}]
tFirstUop == [BaseInst EXCEPT !.microop = "first"]
tLastUop == [BaseInst EXCEPT !.microop = "last"]
tFirstUopFault == [tFirstUop EXCEPT !.oFault = "exec"]
tQuiesce == [BaseInst EXCEPT !.oSuspend = TRUE]
tBarrier == [BaseInst EXCEPT !.isMemBarrier = TRUE]
tSerialize == [BaseInst EXCEPT !.isSerializeAfter = TRUE]
tJump == [BaseInst EXCEPT !.oNpc = 3]
tPredNotTaken == [BaseInst EXCEPT !.predictedTaken = TRUE]
tPredRight == [BaseInst EXCEPT !.predictedTaken = TRUE, !.oNpc = 3]
tPredWrongTarget == [BaseInst EXCEPT !.predictedTaken = TRUE, !.oNpc = 4]
tPredSerialize == [tSerialize EXCEPT !.predictedTaken = TRUE]

isMicroop(si) == si.microop # "none"
isFirstMicroop(si) == si.microop = "first"
isLastMicroop(si) == si.microop = "last"

\* MinorDynInst::isLastOpInInst
isLastOpInInst(si) == ~(isMicroop(si) /\ ~isLastMicroop(si))

\* MinorDynInst::isNoCostInst
isNoCostInst(si) == ~si.isFault /\ si.opClass = "No_OpClass"

\* BranchData
BranchBubble ==
    [reason |-> "NoBranch", newStreamSeqNum |-> 0, newPredictionSeqNum |-> 0,
     target |-> PCState(0), inst |-> Bubble]

Reasons ==
    {"NoBranch", "CorrectlyPredictedBranch", "BadlyPredictedBranch",
     "BadlyPredictedBranchTarget", "UnpredictedBranch", "Interrupt",
     "SuspendThread", "HaltFetch", "WakeupFetch"}

isStreamChange(reason) ==
    reason \notin {"NoBranch", "CorrectlyPredictedBranch"}

\* --------------------------------------------------------------- state
VARIABLES
    insts,          \* execSeqNum -> instruction object (NoInst if not made)
    nextExecSeq,    \* upstream: next execSeqNum Decode hands out
    fetchStream,    \* upstream: streamSeqNum Fetch tags instructions with
    fetchPred,      \* upstream: predictionSeqNum Fetch tags them with
    inputBuffer,    \* queue of batches (ForwardInstData), each a sequence
    inputIndex,
    funcUnits,      \* fu index -> [pipe, stalled]
    inFlightInsts,
    inFUMemInsts,
    scoreboard,
    lsq,            \* [transfers, lastMemBarrier]
    streamSeqNum,
    lastPredictionSeqNum,
    lastCommitWasEndOfMacroop,
    drainState,
    thread,         \* [status, pc]
    interrupt,      \* cpu.checkInterrupts
    pcEvent,        \* a PC event is scheduled at the thread's PC
    out,            \* the BranchData on Execute's output wire
    curCycle,
    phase,          \* "idle" between cycles, "latch" after evaluate
    numDiscardedOps,
    calls,          \* calls made by the last operation on the engine
    retired,        \* every instruction popped from inFlightInsts, in order
    envCalls,       \* drain / resume / interrupt / PC event requests made
    needToTick,
    aborted,        \* fatal() was called: the simulation has ended
    params          \* the MinorCPUParams the engine is constructed from

vars ==
    <<insts, nextExecSeq, fetchStream, fetchPred, inputBuffer, inputIndex,
      funcUnits, inFlightInsts, inFUMemInsts, scoreboard, lsq, streamSeqNum,
      lastPredictionSeqNum, lastCommitWasEndOfMacroop, drainState, thread,
      interrupt, pcEvent, out, curCycle, phase, numDiscardedOps, calls,
      retired, envCalls, needToTick, aborted, params>>

\* The engine's fields gathered in one record, threaded through the
\* operators below
Me ==
    [insts |-> insts, inputBuffer |-> inputBuffer, inputIndex |-> inputIndex,
     funcUnits |-> funcUnits, inFlightInsts |-> inFlightInsts,
     inFUMemInsts |-> inFUMemInsts, scoreboard |-> scoreboard, lsq |-> lsq,
     streamSeqNum |-> streamSeqNum,
     lastPredictionSeqNum |-> lastPredictionSeqNum,
     lastCommitWasEndOfMacroop |-> lastCommitWasEndOfMacroop,
     drainState |-> drainState, thread |-> thread, interrupt |-> interrupt,
     pcEvent |-> pcEvent, branch |-> out, now |-> curCycle,
     numDiscardedOps |-> numDiscardedOps, calls |-> <<>>,
     retired |-> retired, needToTick |-> needToTick, aborted |-> aborted]

\* The log of the calls made: what was called, for which instruction, at
\* which cycle and with the engine at which streamSeqNum
CallA(s, what, id, arg) ==
    [s EXCEPT !.calls = Append(@, [call |-> what, inst |-> id,
                                   cycle |-> s.now,
                                   stream |-> s.streamSeqNum, arg |-> arg])]

NoArg == [none |-> TRUE]

Call(s, what, id) == CallA(s, what, id, NoArg)

\* ----------------------------------------------------------- Scoreboard
FreeReg == [numResults |-> 0, returnCycle |-> 0, writingInst |-> 0,
            numUnpredictableResults |-> 0]

\* Scoreboard::canInstIssue: every source register is readable at `now`
canInstIssue(sb, si, now) ==
    \/ si.isFault
    \/ \A r \in si.srcRegs \ {ZeroReg} :
          /\ sb[r].returnCycle <= now
          /\ sb[r].numUnpredictableResults = 0

\* Scoreboard::markupInstDests
markupInstDests(sb, si, id, retire_time, mark_unpredictable) ==
    IF si.isFault THEN sb
    ELSE [r \in Regs |->
            IF r \in si.destRegs \ {ZeroReg}
            THEN [numResults |-> sb[r].numResults + 1,
                  returnCycle |-> retire_time,
                  writingInst |-> id,
                  numUnpredictableResults |->
                      sb[r].numUnpredictableResults +
                      (IF mark_unpredictable THEN 1 ELSE 0)]
            ELSE sb[r]]

\* Scoreboard::clearInstDests
clearInstDests(sb, si, clear_unpredictable) ==
    IF si.isFault THEN sb
    ELSE [r \in Regs |->
            IF r \in si.destRegs \ {ZeroReg}
            THEN LET n == sb[r].numResults - 1
                     u == sb[r].numUnpredictableResults -
                          (IF clear_unpredictable THEN 1 ELSE 0)
                 IN  IF n = 0
                     THEN [FreeReg EXCEPT !.numUnpredictableResults = u]
                     ELSE [sb[r] EXCEPT !.numResults = n,
                                        !.numUnpredictableResults = u]
            ELSE sb[r]]

RECURSIVE MaxOf(_)
MaxOf(S) == IF S = {} THEN 0
            ELSE LET x == CHOOSE y \in S : TRUE IN Max(x, MaxOf(S \ {x}))

\* Scoreboard::execSeqNumToWaitFor: the youngest writer of a source
execSeqNumToWaitFor(sb, si) ==
    MaxOf({sb[r].writingInst : r \in si.srcRegs \ {ZeroReg}})

\* ------------------------------------------------------------ FUPipeline
\* pipe[1] is the slot pushed into this cycle, pipe[opLat + 1] the tail
EmptyPipe(fu) == [i \in 1..(fuDescriptions[fu].opLat + 1) |-> Bubble]

front(f) == f.pipe[Len(f.pipe)]

alreadyPushed(f) == f.pipe[1] # Bubble

occupancy(f) == Cardinality({i \in 1..Len(f.pipe) : f.pipe[i] # Bubble})

canInsert(f) == occupancy(f) < Len(f.pipe)

push(f, id) == [f EXCEPT !.pipe[1] = id]

\* A pipeline that moves on whether stalled or not
advanceStalled(f) ==
    LET moved == <<Bubble>> \o SubSeq(f.pipe, 1, Len(f.pipe) - 1)
    IN  [pipe |-> moved, stalled |-> moved[Len(moved)] # Bubble]

\* SelfStallingPipeline::advance
advance(f) ==
    IF f.stalled THEN f
    ELSE LET moved == <<Bubble>> \o SubSeq(f.pipe, 1, Len(f.pipe) - 1)
         IN  [pipe |-> moved, stalled |-> moved[Len(moved)] # Bubble]

\* ------------------------------------------------------------------ LSQ
lsqSize == 2

canRequest(l) == Len(l.transfers) < lsqSize

pushRequest(l, id) ==
    [l EXCEPT !.transfers =
        Append(@, [inst |-> id, state |-> "queued", failed |-> FALSE])]

\* A failed request is queued like any other and needs no memory access
pushFailedRequest(l, id) ==
    [l EXCEPT !.transfers =
        Append(@, [inst |-> id, state |-> "queued", failed |-> TRUE])]

findResponse(l, id) ==
    /\ l.transfers # <<>>
    /\ l.transfers[1].inst = id
    /\ l.transfers[1].state = "complete"

popResponse(l) == [l EXCEPT !.transfers = Tail(@)]

accessesInFlight(l) ==
    \E i \in 1..Len(l.transfers) : l.transfers[i].state = "inmem"

lsqNeedsToTick(l) ==
    \E i \in 1..Len(l.transfers) : l.transfers[i].state = "queued"

lsqIsDrained(l) == l.transfers = <<>>

\* LSQ::step: translated requests go out to the memory system; a failed
\* request has nothing to send and is complete
lsqStep(l) ==
    [l EXCEPT !.transfers =
        [i \in 1..Len(@) |->
            IF @[i].state = "queued"
            THEN [@[i] EXCEPT !.state = IF l.transfers[i].failed
                                        THEN "complete" ELSE "inmem"]
            ELSE @[i]]]

issuedMemBarrierInst(l, id) == [l EXCEPT !.lastMemBarrier = id]

completeMemBarrierInst(l, id) ==
    IF l.lastMemBarrier = id THEN [l EXCEPT !.lastMemBarrier = 0] ELSE l

canPushIntoStoreBuffer(l) == TRUE

\* ------------------------------------------------------------- Execute
\* Execute::getInput: the head batch, <<>> for none (NULL)
getInput(s) ==
    IF s.inputBuffer # <<>> THEN s.inputBuffer[1] ELSE <<>>

\* Execute::popInput
popInput(s) ==
    [s EXCEPT !.inputBuffer = IF @ # <<>> THEN Tail(@) ELSE @,
              !.inputIndex = 0]

\* isInbetweenInsts answering yes whatever the engine holds
alwaysInbetweenInsts(s) == TRUE

\* Execute::isInbetweenInsts
isInbetweenInsts(s) ==
    s.lastCommitWasEndOfMacroop /\ ~accessesInFlight(s.lsq)

\* Execute::isInterrupted
isInterrupted(s) == s.interrupt

predictionSeqNumOf(s, id) ==
    IF id = Bubble THEN s.lastPredictionSeqNum
    ELSE s.insts[id].predictionSeqNum

\* updateBranchData without the bump of streamSeqNum
updateBranchDataNoBump(s, reason, id, target) ==
    IF reason # "NoBranch"
    THEN LET s1 == [s EXCEPT !.branch = [reason |-> reason,
                                         newStreamSeqNum |-> s.streamSeqNum,
                                         newPredictionSeqNum |->
                                             predictionSeqNumOf(s, id),
                                         target |-> target,
                                         inst |-> id]]
         IN  CallA(s1, "updateBranchData", id,
                   [before |-> s.streamSeqNum, branch |-> s1.branch])
    ELSE s

\* Execute::updateBranchData
updateBranchData(s, reason, id, target) ==
    IF reason # "NoBranch"
    THEN LET ssn == IF isStreamChange(reason) THEN s.streamSeqNum + 1
                    ELSE s.streamSeqNum
             s1 == [s EXCEPT !.streamSeqNum = ssn,
                             !.branch = [reason |-> reason,
                                         newStreamSeqNum |-> ssn,
                                         newPredictionSeqNum |->
                                             predictionSeqNumOf(s, id),
                                         target |-> target,
                                         inst |-> id]]
         IN  CallA(s1, "updateBranchData", id,
                   [before |-> s.streamSeqNum, branch |-> s1.branch])
    ELSE s

\* branchReason with a forced branch of a predicted-taken instruction lost
branchReasonForcedLost(predictedTaken, force_branch, must_branch, targetsEqual) ==
    IF predictedTaken /\ ~force_branch
    THEN IF ~must_branch THEN "BadlyPredictedBranch"
         ELSE IF targetsEqual THEN "CorrectlyPredictedBranch"
         ELSE "BadlyPredictedBranchTarget"
    ELSE IF must_branch /\ ~predictedTaken THEN "UnpredictedBranch"
    ELSE "NoBranch"

\* The reason Execute::tryToBranch settles on
branchReason(predictedTaken, force_branch, must_branch, targetsEqual) ==
    IF predictedTaken /\ ~force_branch
    THEN IF ~must_branch THEN "BadlyPredictedBranch"
         ELSE IF targetsEqual THEN "CorrectlyPredictedBranch"
         ELSE "BadlyPredictedBranchTarget"
    ELSE IF must_branch THEN "UnpredictedBranch"
    ELSE "NoBranch"

advancePC(pcs) == PCState(pcs.npc)

\* Execute::tryToBranch
tryToBranch(s, id, fault) ==
    LET inst == s.insts[id]
        pc_before == PCState(inst.pc)
        target0 == s.thread.pc
        force_branch == /\ s.thread.status # "Suspended"
                        /\ ~inst.isFault
                        /\ isLastOpInInst(inst)
                        /\ inst.isSerializeAfter
        must_branch == pc_before # target0 \/ fault \/ force_branch
        target == IF ~fault THEN advancePC(target0) ELSE target0
        s1 == IF ~fault THEN [s EXCEPT !.thread.pc = target] ELSE s
        targetsEqual == PCState(inst.predictedTarget) = target
        reason == branchReason(inst.predictedTaken, force_branch, must_branch,
                               targetsEqual)
    IN  updateBranchData(
            CallA(s1, "tryToBranch", id,
                  [predictedTaken |-> inst.predictedTaken,
                   force_branch |-> force_branch,
                   must_branch |-> must_branch,
                   targetsEqual |-> targetsEqual, reason |-> reason]),
            reason, id, target)

\* Fault::invoke: the thread continues at the handler
invoke(s, id) ==
    [Call(s, "invoke", id) EXCEPT !.thread.pc = FaultPC]

\* ExecContext::ExecContext then StaticInst::execute / initiateAcc: the
\* thread's PC is set to the instruction's, then the instruction has
\* its effect on it
runInst(s, id, what) ==
    LET inst == s.insts[id]
        s1 == Call(s, what, id)
    IN  IF inst.oFault = "exec"
        THEN [s1 EXCEPT !.thread.pc = PCState(inst.pc)]
        ELSE [s1 EXCEPT !.thread.pc = [pc |-> inst.pc, npc |-> inst.oNpc],
                        !.thread.status =
                            IF inst.oSuspend THEN "Suspended" ELSE @]

\* handleMemResponse calling completeAcc whatever the response carries
handleMemResponseAlwaysCompletes(s, id) ==
    LET inst == s.insts[id]
        s0 == [Call(s, "handleMemResponse", id) EXCEPT
                 !.thread.pc = PCState(inst.pc)]
        s1 == Call(s0, "completeAcc", id)
        fault == inst.oFault \in {"resp", "complete"}
    IN  [s |-> tryToBranch([(IF fault THEN invoke(s1, id) ELSE s1)
                              EXCEPT !.lsq = popResponse(@)], id, fault),
         fault |-> fault]

\* A packet that is never flagged as an error
neverError(inst) == FALSE

\* Packet::isError of the packet of the response to inst
isError(inst) == inst.oError

\* Execute::handleMemResponse: [s, fault]
handleMemResponse(s, id) ==
    LET inst == s.insts[id]
        s0 == [Call(s, "handleMemResponse", id) EXCEPT
                 !.thread.pc = PCState(inst.pc)]
        respFault == inst.oFault = "resp"
        failed == s.lsq.transfers[1].failed
        r == IF respFault
             THEN IF inst.isPrefetch THEN [s |-> s0, fault |-> FALSE]
                  ELSE [s |-> invoke(s0, id), fault |-> TRUE]
             ELSE IF failed THEN [s |-> s0, fault |-> FALSE]
             ELSE IF isError(inst)
                  THEN [s |-> [s0 EXCEPT !.aborted = TRUE], fault |-> FALSE]
             ELSE LET s1 == Call(s0, "completeAcc", id)
                  IN  IF inst.oFault = "complete"
                      THEN [s |-> invoke(s1, id), fault |-> TRUE]
                      ELSE [s |-> s1, fault |-> FALSE]
    IN  The({IF q.s.aborted THEN q
             ELSE [s |-> tryToBranch([q.s EXCEPT !.lsq = popResponse(@)],
                                     id, q.fault),
                   fault |-> q.fault] : q \in {r}})

\* Execute::takeInterrupt: [s, took]
takeInterrupt(s) ==
    IF s.interrupt
    THEN LET s1 == [s EXCEPT !.interrupt = FALSE, !.thread.pc = FaultPC]
         IN  [s |-> updateBranchData(Call(s1, "interrupt", Bubble),
                                     "Interrupt", Bubble, s1.thread.pc),
              took |-> TRUE]
    ELSE [s |-> s, took |-> FALSE]

\* Execute::executeMemRefInst: [s, issued, fault]
executeMemRefInst(s, id) ==
    IF ~canRequest(s.lsq)
    THEN [s |-> s, issued |-> FALSE, fault |-> FALSE]
    ELSE LET inst == s.insts[id]
             old_pc == s.thread.pc
             s1 == runInst(s, id, "initiateAcc")
         IN  [s |-> [s1 EXCEPT
                       !.lsq = IF inst.oFault = "exec" THEN @
                               ELSE IF inst.oPredicate THEN pushRequest(@, id)
                               ELSE pushFailedRequest(@, id),
                       !.thread.pc = old_pc],
              issued |-> TRUE,
              fault |-> inst.oFault = "exec"]

\* A suspension told to Fetch whatever the branch holds and whether or not
\* an interrupt is pending
suspendsThreadAlways(s, inst) ==
    ~inst.isFault /\ s.thread.status = "Suspended"

\* Execute::commitInst: did this instruction suspend the thread, with no
\* branch written (branch.isBubble()) and no interrupt pending?
suspendsThread(s, inst) ==
    /\ ~inst.isFault
    /\ s.thread.status = "Suspended"
    /\ s.branch.reason = "NoBranch"
    /\ ~isInterrupted(s)

\* Execute::commitInst:
\*   [s, completed_inst, fault, committed, completed_mem_issue]
commitInst(s, id, early_memory_issue) ==
    LET inst == s.insts[id]
        r == IF s.thread.status = "Suspended" /\ ~isInterrupted(s)
             THEN [s |-> s, completed_inst |-> FALSE, fault |-> FALSE,
                   committed |-> FALSE, completed_mem_issue |-> FALSE]
             ELSE IF inst.isFault
             THEN LET s1 == invoke([s EXCEPT !.thread.pc = PCState(inst.pc)],
                                   id)
                  IN  [s |-> tryToBranch(s1, id, TRUE),
                       completed_inst |-> TRUE, fault |-> TRUE,
                       committed |-> FALSE, completed_mem_issue |-> FALSE]
             ELSE IF inst.isMemRef
             THEN The({
                      IF m.issued /\ m.fault
                      THEN IF early_memory_issue
                           THEN [s |-> [m.s EXCEPT
                                          !.insts[id].canEarlyIssue = FALSE],
                                 completed_inst |-> FALSE, fault |-> TRUE,
                                 committed |-> FALSE,
                                 completed_mem_issue |-> FALSE]
                           ELSE [s |-> tryToBranch(invoke(m.s, id), id, TRUE),
                                 completed_inst |-> TRUE, fault |-> TRUE,
                                 committed |-> FALSE,
                                 completed_mem_issue |-> TRUE]
                      ELSE [s |-> m.s, completed_inst |-> m.issued,
                            fault |-> FALSE, committed |-> FALSE,
                            completed_mem_issue |-> m.issued]
                      : m \in {executeMemRefInst(s, id)}})
             ELSE IF inst.isMemBarrier /\ ~canPushIntoStoreBuffer(s.lsq)
             THEN [s |-> s, completed_inst |-> FALSE, fault |-> FALSE,
                   committed |-> FALSE, completed_mem_issue |-> FALSE]
             ELSE LET s1 == runInst(s, id, "execute")
                      f == inst.oFault = "exec"
                      s2 == IF f THEN invoke(s1, id) ELSE s1
                  IN  [s |-> tryToBranch(s2, id, f),
                       completed_inst |-> TRUE, fault |-> f,
                       committed |-> TRUE, completed_mem_issue |-> FALSE]
        suspend(s3) ==
              IF suspendsThread(s3, inst)
              THEN updateBranchData(s3, "SuspendThread", id, s3.thread.pc)
              ELSE s3
    IN  The({IF q.completed_inst
             THEN [q EXCEPT !.s =
                     The({suspend(s3) : s3 \in
                          {[q.s EXCEPT !.lastPredictionSeqNum =
                                           inst.predictionSeqNum]}})]
             ELSE q : q \in {r}})

\* Execute::tryPCEvents: [s, acted]; a scheduled PC event moves the PC
tryPCEvents(s) ==
    IF s.pcEvent
    THEN [s |-> [s EXCEPT !.pcEvent = FALSE, !.thread.pc = PCState(4)],
          acted |-> TRUE]
    ELSE [s |-> s, acted |-> FALSE]

\* Timing tweaks that keep the expression and the delay on the instruction,
\* to be folded again at the next attempt
foldCommitDelayAgain(s, id) ==
    LET inst == s.insts[id]
        extra_delay == inst.extraCommitDelayExpr
        d == IF extra_delay >= 0 /\ extra_delay < 128
             THEN inst.extraCommitDelay + extra_delay
             ELSE inst.extraCommitDelay
        s1 == IF extra_delay >= 0 THEN Call(s, "evalDelayExpr", id) ELSE s
    IN  [s1 EXCEPT !.insts[id].minimumCommitCycle =
                       IF d # 0 THEN s.now + d ELSE @]

\* The timing tweaks of Execute::commit before an instruction is tried:
\* extraCommitDelayExpr is evaluated and folded into minimumCommitCycle
foldCommitDelay(s, id) ==
    LET inst == s.insts[id]
        extra_delay == inst.extraCommitDelayExpr
        d == IF extra_delay >= 0 /\ extra_delay < 128
             THEN inst.extraCommitDelay + extra_delay
             ELSE inst.extraCommitDelay
        s1 == IF extra_delay >= 0 THEN Call(s, "evalDelayExpr", id) ELSE s
    IN  [s1 EXCEPT !.insts[id].extraCommitDelayExpr = -1,
                   !.insts[id].extraCommitDelay = 0,
                   !.insts[id].minimumCommitCycle =
                       IF d # 0 THEN s.now + d ELSE @]

\* An early-issue test that does not look at instToWaitFor
earlyMemInstNoWait(s, head_exec_seq_num) ==
    IF s.inFUMemInsts # <<>> /\ canRequest(s.lsq)
    THEN LET head_mem_ref_inst == s.inFUMemInsts[1]
             fu_inst == front(s.funcUnits[s.insts[head_mem_ref_inst].fuIndex])
         IN  IF /\ fu_inst # Bubble
                /\ ~s.insts[fu_inst].inLSQ
                /\ s.insts[fu_inst].canEarlyIssue
                /\ s.streamSeqNum = s.insts[fu_inst].streamSeqNum
             THEN fu_inst
             ELSE Bubble
    ELSE Bubble

\* Early memory issue of an instruction of any stream
earlyMemInstAnyStream(s, head_exec_seq_num) ==
    IF s.inFUMemInsts # <<>> /\ canRequest(s.lsq)
    THEN LET head_mem_ref_inst == s.inFUMemInsts[1]
             fu_inst == front(s.funcUnits[s.insts[head_mem_ref_inst].fuIndex])
         IN  IF /\ fu_inst # Bubble
                /\ ~s.insts[fu_inst].inLSQ
                /\ s.insts[fu_inst].canEarlyIssue
                /\ head_exec_seq_num > s.insts[fu_inst].instToWaitFor
             THEN fu_inst
             ELSE Bubble
    ELSE Bubble

\* The early-issue test of Execute::commit: the instruction at the tail of
\* the FU of the head of inFUMemInsts, Bubble if it may not go early
earlyMemInst(s, head_exec_seq_num) ==
    IF s.inFUMemInsts # <<>> /\ canRequest(s.lsq)
    THEN LET head_mem_ref_inst == s.inFUMemInsts[1]
             fu_inst == front(s.funcUnits[s.insts[head_mem_ref_inst].fuIndex])
         IN  IF /\ fu_inst # Bubble
                /\ ~s.insts[fu_inst].inLSQ
                /\ s.insts[fu_inst].canEarlyIssue
                /\ s.streamSeqNum = s.insts[fu_inst].streamSeqNum
                /\ head_exec_seq_num > s.insts[fu_inst].instToWaitFor
             THEN fu_inst
             ELSE Bubble
    ELSE Bubble

\* The stream test left out of discard_inst
discardInstFlagOnly(s, id, discard) == discard

\* discard_inst of Execute::commit
discardInst(s, id, discard) ==
    s.insts[id].streamSeqNum # s.streamSeqNum \/ discard

\* One pass of the loop body of Execute::commit, from try_to_commit on:
\*   [s, completed_inst, fault, committed_inst, issued_mem_ref, discard_inst]
tryToCommit(s, id, early_memory_issue, discard) ==
    LET discard_inst == discardInst(s, id, discard)
        r == IF discard_inst
             THEN [s |-> s, completed_inst |-> TRUE, fault |-> FALSE,
                   committed |-> FALSE, completed_mem_issue |-> FALSE]
             ELSE The({
                  IF /\ ~s1.insts[id].isFault
                     /\ s1.insts[id].isMemRef
                     /\ s1.lsq.lastMemBarrier < id
                     /\ s1.lsq.lastMemBarrier # 0
                  THEN [s |-> s1, completed_inst |-> FALSE, fault |-> FALSE,
                        committed |-> FALSE, completed_mem_issue |-> FALSE]
                  ELSE IF s1.insts[id].minimumCommitCycle > s1.now
                  THEN [s |-> s1, completed_inst |-> FALSE, fault |-> FALSE,
                        committed |-> FALSE, completed_mem_issue |-> FALSE]
                  ELSE commitInst(s1, id, early_memory_issue)
                  : s1 \in {foldCommitDelay(s, id)}})
        unstall(q) ==
              IF q.completed_inst /\ q.s.insts[id].fuIndex # noCostFUIndex
              THEN [q.s EXCEPT
                      !.funcUnits[q.s.insts[id].fuIndex].stalled = FALSE]
              ELSE q.s
    IN  The({[s |-> unstall(q), completed_inst |-> q.completed_inst,
              fault |-> q.fault, committed_inst |-> q.committed,
              issued_mem_ref |-> q.completed_mem_issue,
              discard_inst |-> discard_inst] : q \in {r}})

NothingDone(s) ==
    [s |-> s, completed_inst |-> FALSE, fault |-> FALSE,
     committed_inst |-> FALSE, issued_mem_ref |-> FALSE,
     discard_inst |-> FALSE]

\* The scoreboard left as it is when an instruction leaves the queue
keepDestsOnPop(sb, inst) == sb

\* Execute::commit: scoreboard.clearInstDests(inst, inst->isMemRef())
clearDestsOnPop(sb, inst) ==
    clearInstDests(sb, inst, ~inst.isFault /\ inst.isMemRef)

\* A pop at the wrong end of the queue
popInFlightBack(q) == SubSeq(q, 1, Len(q) - 1)

\* inFlightInsts->pop()
popInFlight(q) == Tail(q)

\* The end of the loop body of Execute::commit: accounting for the
\* instruction `id` that was completed (or not)
finishInst(s, r, id, head) ==
    LET inst == r.s.insts[id]
        s1 == IF r.discard_inst /\ ~r.fault
              THEN [r.s EXCEPT !.numDiscardedOps = @ + 1]
              ELSE r.s
        s2 == IF r.issued_mem_ref
              THEN [s1 EXCEPT !.insts[id].fuIndex = 0,
                              !.insts[id].inLSQ = TRUE]
              ELSE s1
        s3 == IF /\ r.completed_inst
                 /\ ~inst.isFault /\ inst.isMemRef
                 /\ s2.inFUMemInsts # <<>>
                 /\ s2.inFUMemInsts[1] = id
              THEN [s2 EXCEPT !.inFUMemInsts = Tail(@)]
              ELSE s2
        s4 == IF r.completed_inst /\ ~(r.issued_mem_ref /\ ~r.fault)
              THEN [s3 EXCEPT
                      !.lastCommitWasEndOfMacroop =
                          inst.isFault \/ isLastOpInInst(inst),
                      !.lastPredictionSeqNum = inst.predictionSeqNum,
                      !.inFlightInsts = popInFlight(@),
                      !.lsq = IF ~inst.isFault /\ inst.isMemBarrier
                              THEN completeMemBarrierInst(@, id)
                              ELSE @,
                      !.scoreboard = clearDestsOnPop(@, inst),
                      !.retired =
                          Append(@, [inst |-> id, head |-> head,
                                     cycle |-> s.now,
                                     discarded |-> r.discard_inst,
                                     committed |-> r.committed_inst,
                                     drainState |-> s.drainState,
                                     streamBefore |-> s.streamSeqNum,
                                     stream |-> s3.streamSeqNum])]
              ELSE s3
    IN  s4

\* A head taken for the instruction at the tail of its functional unit
\* wherever it is
tailAnything(s, head) == TRUE

\* Execute::commit: is the instruction at the tail of the head's functional
\* unit the head itself (not a bubble, the same execSeqNum)?
tailIsHead(s, head) ==
    LET fu_inst == front(s.funcUnits[s.insts[head].fuIndex])
    IN  fu_inst # Bubble /\ fu_inst = head

\* A commit that never takes a memory response
commitsNoMemResponse(s, head, num_mem_refs_committed) == FALSE

\* Execute::commit: mem_response && num_mem_refs_committed <
\* memoryCommitLimit, the first completion source tried for the head
commitsMemResponse(s, head, num_mem_refs_committed) ==
    LET mem_response == s.insts[head].inLSQ /\ findResponse(s.lsq, head)
    IN  mem_response /\ num_mem_refs_committed < memoryCommitLimit

\* Commit free to cross into the next macro-instruction
canCommitAlways(s, only_commit_microops) == TRUE

\* Execute::commit: can_commit_insts (the queue is not empty in the loop)
canCommitInsts(s, only_commit_microops) ==
    ~(only_commit_microops /\ s.lastCommitWasEndOfMacroop)

\* The loop body of Execute::commit:
\*   [s, completed_inst, fault, committed_inst, completed_mem_ref]
commitStep(s, only_commit_microops, discard, num_mem_refs_committed) ==
    LET head == s.inFlightInsts[1]
        can_commit_insts == canCommitInsts(s, only_commit_microops)
    IN  IF isInbetweenInsts(s) /\ tryPCEvents(s).acted
        THEN [s |-> The({updateBranchData(e, "UnpredictedBranch", Bubble,
                                          e.thread.pc)
                         : e \in {tryPCEvents(s).s}}),
              completed_inst |-> FALSE, fault |-> FALSE,
              committed_inst |-> FALSE, completed_mem_ref |-> FALSE,
              inst |-> head]
        ELSE IF commitsMemResponse(s, head, num_mem_refs_committed)
        THEN LET discard_inst == discardInst(s, head, discard)
                 r(h) == [s |-> h.s, completed_inst |-> TRUE,
                          fault |-> h.fault, committed_inst |-> ~discard_inst,
                          issued_mem_ref |-> FALSE,
                          discard_inst |-> discard_inst]
             IN  The({[s |-> IF h.s.aborted THEN h.s
                             ELSE finishInst(s, r(h), head, head),
                       completed_inst |-> TRUE, fault |-> h.fault,
                       committed_inst |-> ~discard_inst,
                       completed_mem_ref |-> TRUE, inst |-> head]
                      : h \in {IF discard_inst
                               THEN [s |-> [s EXCEPT !.lsq = popResponse(@)],
                                     fault |-> FALSE]
                               ELSE handleMemResponse(s, head)}})
        ELSE IF can_commit_insts
        THEN LET try_to_commit(early) ==
                     \/ early # Bubble
                     \/ isNoCostInst(s.insts[head])
                     \/ /\ ~s.insts[head].inLSQ
                        /\ tailIsHead(s, head)
                 instOf(early) == IF early # Bubble THEN early ELSE head
             IN  The({The({[s |-> finishInst(s, r, instOf(early), head),
                            completed_inst |-> r.completed_inst,
                            fault |-> r.fault,
                            committed_inst |-> r.committed_inst,
                            completed_mem_ref |-> FALSE,
                            inst |-> instOf(early)]
                           : r \in {IF try_to_commit(early)
                                    THEN tryToCommit(s, instOf(early),
                                                     early # Bubble, discard)
                                    ELSE NothingDone(s)}})
                      : early \in {earlyMemInst(s, head)}})
        ELSE [s |-> s, completed_inst |-> FALSE, fault |-> FALSE,
              committed_inst |-> FALSE, completed_mem_ref |-> FALSE,
              inst |-> head]

\* A commit loop that counts no instruction against commitLimit
RECURSIVE commitLoopUncounted(_, _, _, _, _, _, _)
commitLoopUncounted(s, only_commit_microops, discard, fault, completed_inst, num_insts_committed, num_mem_refs_committed) ==
    IF /\ s.inFlightInsts # <<>>
       /\ ~isStreamChange(s.branch.reason)
       /\ ~fault
       /\ completed_inst
       /\ ~s.aborted
    THEN The({commitLoopUncounted(r.s, only_commit_microops, discard,
                                  r.fault, r.completed_inst, 0,
                                  num_mem_refs_committed +
                                      (IF r.committed_inst /\
                                          r.completed_mem_ref
                                       THEN 1 ELSE 0))
              : r \in {commitStep(s, only_commit_microops, discard,
                                  num_mem_refs_committed)}})
    ELSE s

\* Execute::commit: the while loop
RECURSIVE commitLoop(_, _, _, _, _, _, _)
commitLoop(s, only_commit_microops, discard, fault, completed_inst, num_insts_committed, num_mem_refs_committed) ==
    IF /\ s.inFlightInsts # <<>>
       /\ ~isStreamChange(s.branch.reason)
       /\ ~fault
       /\ completed_inst
       /\ num_insts_committed # commitLimit
       /\ ~s.aborted
    THEN The({commitLoop(r.s, only_commit_microops, discard, r.fault,
                         r.completed_inst,
                         num_insts_committed +
                             (IF r.committed_inst /\
                                 ~isNoCostInst(r.s.insts[r.inst])
                              THEN 1 ELSE 0),
                         num_mem_refs_committed +
                             (IF r.committed_inst /\ r.completed_mem_ref
                              THEN 1 ELSE 0))
              : r \in {commitStep(s, only_commit_microops, discard,
                                  num_mem_refs_committed)}})
    ELSE s

commit(s, only_commit_microops, discard) ==
    commitLoop(s, only_commit_microops, discard, FALSE, TRUE, 0, 0)

\* ---------------------------------------------------------------- issue
\* A push at the wrong end of the queue
pushInFlightFront(q, id) == <<id>> \o q

\* inFlightInsts->push(fu_inst)
pushInFlight(q, id) == Append(q, id)

\* History kept beside an instruction (issueOrder): its rank among the
\* instructions pushed into inFlightInsts, 0 while it is not issued
issueRank(s) ==
    1 + Cardinality({k \in DOMAIN s.insts :
                        s.insts[k].present /\ s.insts[k].issueOrder # 0})

\* What the source registers of an instruction look like at issue
SrcReturnCycle(sb, si) ==
    MaxOf({sb[r].returnCycle : r \in si.srcRegs \ {ZeroReg}})

\* Execute::issue, the no-cost branch of the FU loop
issueNoCost(s, id) ==
    LET inst == s.insts[id]
        s1 == CallA(s, "issue", id,
                    [fu |-> noCostFUIndex,
                     srcReturnCycle |-> SrcReturnCycle(s.scoreboard, inst)])
    IN  [s1 EXCEPT
           !.scoreboard = markupInstDests(@, inst, id, s.now + 0, FALSE),
           !.insts[id].fuIndex = noCostFUIndex,
           !.insts[id].extraCommitDelay = 0,
           !.insts[id].extraCommitDelayExpr = -1,
           !.insts[id].issueOrder = issueRank(s),
           !.inFlightInsts = pushInFlight(@, id)]

\* fuAccepts without the scoreboard test
fuAcceptsUnready(s, id, fu_index) ==
    LET inst == s.insts[id]
        fu == s.funcUnits[fu_index]
        fu_is_capable == IF ~inst.isFault THEN provides(fu_index, inst.opClass)
                         ELSE TRUE
        timing == IF ~inst.isFault THEN findTiming(fu_index, inst.opClass)
                  ELSE NoTiming
    IN  /\ fu_is_capable
        /\ ~alreadyPushed(fu)
        /\ ~fu.stalled
        /\ canInsert(fu)
        /\ ~(timing.has /\ timing.suppress)

\* fuAccepts without the capability test
fuAcceptsIncapable(s, id, fu_index) ==
    LET inst == s.insts[id]
        fu == s.funcUnits[fu_index]
        timing == IF ~inst.isFault THEN findTiming(fu_index, inst.opClass)
                  ELSE NoTiming
    IN  /\ ~alreadyPushed(fu)
        /\ ~fu.stalled
        /\ canInsert(fu)
        /\ ~(timing.has /\ timing.suppress)
        /\ canInstIssue(s.scoreboard, inst, s.now)

\* Can the instruction go into FU fu_index now?
fuAccepts(s, id, fu_index) ==
    LET inst == s.insts[id]
        fu == s.funcUnits[fu_index]
        fu_is_capable == IF ~inst.isFault THEN provides(fu_index, inst.opClass)
                         ELSE TRUE
        timing == IF ~inst.isFault THEN findTiming(fu_index, inst.opClass)
                  ELSE NoTiming
    IN  /\ fu_is_capable
        /\ ~alreadyPushed(fu)
        /\ ~fu.stalled
        /\ canInsert(fu)
        /\ ~(timing.has /\ timing.suppress)
        /\ canInstIssue(s.scoreboard, inst, s.now)

\* Execute::issue, the final branch of the FU loop: push into FU fu_index
issueToFU(s, id, fu_index) ==
    LET inst == s.insts[id]
        timing == IF ~inst.isFault THEN findTiming(fu_index, inst.opClass)
                  ELSE NoTiming
        issued_mem_ref == ~inst.isFault /\ inst.isMemRef
        waitFor0 == execSeqNumToWaitFor(s.scoreboard, inst)
        waitFor == IF s.lsq.lastMemBarrier > waitFor0
                   THEN s.lsq.lastMemBarrier ELSE waitFor0
        s1 == CallA(s, "issue", id,
                    [fu |-> fu_index,
                     srcReturnCycle |-> SrcReturnCycle(s.scoreboard, inst),
                     accepting |-> {f \in 0..(numFuncUnits - 1) :
                                       fuAccepts(s, id, f)}])
        s2 == [s1 EXCEPT
                 !.insts[id].fuIndex = fu_index,
                 !.insts[id].issueOrder = issueRank(s),
                 !.insts[id].extraCommitDelay = timing.extraCommitLat,
                 !.insts[id].extraCommitDelayExpr = timing.extraCommitLatExpr]
        s3 == IF issued_mem_ref
              THEN [s2 EXCEPT
                      !.insts[id].instToWaitFor =
                          IF allowEarlyMemIssue THEN waitFor ELSE @,
                      !.insts[id].canEarlyIssue =
                          IF allowEarlyMemIssue THEN TRUE ELSE @,
                      !.inFUMemInsts = Append(@, id)]
              ELSE s2
    IN  [s3 EXCEPT
           !.funcUnits[fu_index] = push(@, id),
           !.scoreboard =
               markupInstDests(@, inst, id,
                               s.now + fuDescriptions[fu_index].opLat +
                               timing.extraCommitLat + timing.extraAssumedLat,
                               issued_mem_ref /\ timing.extraAssumedLat = 0),
           !.inFlightInsts = pushInFlight(@, id)]

\* The do-while over the FUs taken from the highest index downwards
RECURSIVE tryFUsDown(_, _, _)
tryFUsDown(s, id, fu_index) ==
    IF isNoCostInst(s.insts[id])
    THEN [s |-> issueNoCost(s, id), issued |-> TRUE,
          fu_index |-> noCostFUIndex + 1]
    ELSE IF fuAccepts(s, id, numFuncUnits - 1 - fu_index)
    THEN [s |-> issueToFU(s, id, numFuncUnits - 1 - fu_index),
          issued |-> TRUE, fu_index |-> fu_index + 1]
    ELSE IF fu_index + 1 # numFuncUnits
    THEN tryFUsDown(s, id, fu_index + 1)
    ELSE [s |-> s, issued |-> FALSE, fu_index |-> fu_index + 1]

\* Execute::issue, the inner do-while over the FUs: [s, issued, fu_index]
RECURSIVE tryFUs(_, _, _)
tryFUs(s, id, fu_index) ==
    IF isNoCostInst(s.insts[id])
    THEN [s |-> issueNoCost(s, id), issued |-> TRUE,
          fu_index |-> noCostFUIndex + 1]
    ELSE IF fuAccepts(s, id, fu_index)
    THEN [s |-> issueToFU(s, id, fu_index), issued |-> TRUE,
          fu_index |-> fu_index + 1]
    ELSE IF fu_index + 1 # numFuncUnits
    THEN tryFUs(s, id, fu_index + 1)
    ELSE [s |-> s, issued |-> FALSE, fu_index |-> fu_index + 1]

\* A thread that issue never finds suspended
neverSuspended(s) == FALSE

\* Execute::issue: cpu.getContext(thread_id)->status() == Suspended
threadSuspended(s) == s.thread.status = "Suspended"

\* Execute::issue, the body of the outer do-while for one instruction:
\*   [s, issued, discarded, issued_mem_ref, fu_index]
issueOne(s, id, only_issue_microops, fu_index) ==
    IF id = Bubble
    THEN [s |-> s, issued |-> TRUE, discarded |-> FALSE,
          issued_mem_ref |-> FALSE, fu_index |-> fu_index]
    ELSE IF threadSuspended(s)
    THEN [s |-> s, issued |-> FALSE, discarded |-> FALSE,
          issued_mem_ref |-> FALSE, fu_index |-> fu_index]
    ELSE IF s.insts[id].streamSeqNum # s.streamSeqNum
    THEN [s |-> Call(s, "issueDiscard", id), issued |-> TRUE,
          discarded |-> TRUE, issued_mem_ref |-> FALSE,
          fu_index |-> fu_index]
    ELSE IF /\ ~s.insts[id].isFault
            /\ only_issue_microops
            /\ (~isMicroop(s.insts[id]) \/ ~isFirstMicroop(s.insts[id]))
    THEN [s |-> s, issued |-> FALSE, discarded |-> FALSE,
          issued_mem_ref |-> FALSE, fu_index |-> fu_index]
    ELSE The({[s |-> r.s, issued |-> r.issued, discarded |-> FALSE,
               issued_mem_ref |-> /\ r.issued
                                  /\ ~isNoCostInst(s.insts[id])
                                  /\ ~s.insts[id].isFault
                                  /\ s.insts[id].isMemRef,
               fu_index |-> r.fu_index] : r \in {tryFUs(s, id, 0)}})

\* inputIndex stepping on whether or not the instruction was issued
stepInputIndexAlways(s, issued) == [s EXCEPT !.inputIndex = @ + 1]

\* Execute::issue: if (issued) inputIndex++
stepInputIndex(s, issued) ==
    IF issued THEN [s EXCEPT !.inputIndex = @ + 1] ELSE s

\* A count of the instructions issued that takes in the discarded ones
countDiscarded(num_insts_issued, issued, discarded) ==
    num_insts_issued + (IF issued THEN 1 ELSE 0)

\* Execute::issue: if (issued) { if (discarded) num_insts_discarded++;
\* else num_insts_issued++; }
countIssued(num_insts_issued, issued, discarded) ==
    num_insts_issued + (IF issued /\ ~discarded THEN 1 ELSE 0)

\* Execute::issue, the outer do-while: [s, num_insts_issued]
RECURSIVE issueLoop(_, _, _, _, _)
issueLoop(s, only_issue_microops, fu_index, num_insts_issued, num_mem_insts_issued) ==
    LET insts_in == getInput(s)
        id == insts_in[s.inputIndex + 1]
        barrier(r) ==
              IF /\ r.issued /\ ~r.discarded /\ id # Bubble
                 /\ ~s.insts[id].isFault /\ s.insts[id].isMemBarrier
              THEN [r.s EXCEPT !.lsq = issuedMemBarrierInst(@, id)]
              ELSE r.s
        nmi(r) == num_mem_insts_issued +
                  (IF r.issued /\ r.issued_mem_ref THEN 1 ELSE 0)
        nii(r) == countIssued(num_insts_issued, r.issued, r.discarded)
        step(r) == stepInputIndex(barrier(r), r.issued)
        endOfLine(s2) == s2.inputIndex = Len(insts_in)
        more(s3, eol) == IF eol
                         THEN processMoreThanOneInput /\ getInput(s3) # <<>>
                         ELSE TRUE
        rest(r, s3, eol) ==
            IF /\ more(s3, eol)
               /\ s3.inputIndex < Len(getInput(s3))
               /\ r.fu_index # numFuncUnits
               /\ r.issued
               /\ nii(r) # issueLimit
               /\ nmi(r) # memoryIssueLimit
            THEN issueLoop(s3, only_issue_microops, r.fu_index, nii(r),
                           nmi(r))
            ELSE [s |-> s3, num_insts_issued |-> nii(r)]
    IN  The({The({rest(r, IF endOfLine(s2) THEN popInput(s2) ELSE s2,
                       endOfLine(s2)) : s2 \in {step(r)}})
             : r \in {issueOne(s, id, only_issue_microops, fu_index)}})

\* Execute::issue; the value it returns is kept in the log of calls
issue(s, only_issue_microops) ==
    LET r == IF getInput(s) = <<>> THEN [s |-> s, num_insts_issued |-> 0]
             ELSE issueLoop(s, only_issue_microops, 0, 0, 0)
    IN  The({[s |-> CallA(q.s, "issueReturns", Bubble,
                          [num_insts_issued |-> q.num_insts_issued,
                           only_issue_microops |-> only_issue_microops]),
              num_insts_issued |-> q.num_insts_issued] : q \in {r}})

\* ------------------------------------------------------------- evaluate
\* MinorCPU::wakeupOnEvent for the Execute stage: evaluate will be called
wakeupOnEvent(s) == [s EXCEPT !.needToTick = TRUE]

\* Execute::setDrainState
setDrainState(s, state) ==
    [CallA(s, "setDrainState", Bubble,
           [from |-> s.drainState, to |-> state])
       EXCEPT !.drainState = state]

\* The input left where it is
popNoInput(s) == s

\* Execute::evaluate in DrainAllInsts: while (getInput()) popInput()
popAllInput(s) ==
    [s EXCEPT !.inputBuffer = <<>>,
              !.inputIndex = IF s.inputBuffer # <<>> THEN 0 ELSE @]

\* Execute::evaluate, the commit / issue part (no interrupt taken, no
\* branch pending on the wire): [s, num_issued]
commitAndIssue(s, hadInput, interrupted) ==
    LET dropInput == popAllInput(s)
        committed ==
            IF s.drainState = "DrainHaltFetch" THEN s
            ELSE The({IF s.drainState = "DrainCurrentInst"
                      THEN [(IF isInbetweenInsts(c)
                             THEN setDrainState(c, "DrainHaltFetch") ELSE c)
                              EXCEPT !.branch = BranchBubble]
                      ELSE c
                      : c \in {commit(IF s.drainState = "DrainAllInsts"
                                      THEN dropInput ELSE s,
                                      IF s.drainState = "DrainCurrentInst"
                                      THEN TRUE
                                      ELSE IF s.drainState = "DrainAllInsts"
                                      THEN FALSE ELSE interrupted,
                                      s.drainState = "DrainAllInsts")}})
    IN  The({IF hadInput /\ ~s1.aborted THEN issue(s1, FALSE)
             ELSE [s |-> s1, num_insts_issued |-> 0] : s1 \in {committed}})

\* The activity test that looks at the issue count and the interrupt only
computeNeedToTickIssued(s, num_issued, interrupted) ==
    num_issued # 0 \/ interrupted

\* Execute::evaluate, the activity test at its end
computeNeedToTick(s, num_issued, interrupted) ==
    LET insts_in == getInput(s)
        next == IF insts_in # <<>> THEN insts_in[s.inputIndex + 1] ELSE Bubble
        next_is_fault == next # Bubble /\ s.insts[next].isFault
        next_issuable_inst ==
            IF next # Bubble /\ ~next_is_fault /\
               s.thread.status # "Suspended"
            THEN next ELSE Bubble
        becoming_stalled ==
            \A i \in 0..(numFuncUnits - 1) :
                ~(occupancy(s.funcUnits[i]) # 0 /\ ~s.funcUnits[i].stalled)
        can_issue_next ==
            \/ next_is_fault
            \/ /\ next_issuable_inst # Bubble
               /\ \E i \in 0..(numFuncUnits - 1) :
                     /\ ~s.funcUnits[i].stalled
                     /\ canInstIssue(s.scoreboard, s.insts[next_issuable_inst],
                                     s.now + 1)
                     /\ provides(i, s.insts[next_issuable_inst].opClass)
        head_inst_might_commit ==
            /\ s.inFlightInsts # <<>>
            /\ LET head == s.inFlightInsts[1]
               IN  \/ isNoCostInst(s.insts[head])
                   \/ /\ ~isNoCostInst(s.insts[head])
                      /\ LET fu == s.funcUnits[s.insts[head].fuIndex]
                         IN  \/ fu.stalled /\ front(fu) = head
                             \/ findResponse(s.lsq, head)
    IN  \/ num_issued # 0
        \/ ~becoming_stalled
        \/ can_issue_next
        \/ head_inst_might_commit
        \/ lsqNeedsToTick(s.lsq)
        \/ interrupted

\* haltFetch moving on to DrainAllInsts without the redirect
haltFetchSilent(c) ==
    IF c.drainState = "DrainHaltFetch"
    THEN setDrainState(wakeupOnEvent(c), "DrainAllInsts")
    ELSE c

\* Execute::evaluate, the halt of fetch once the current instruction is done
haltFetch(c) ==
    IF c.drainState = "DrainHaltFetch"
    THEN setDrainState(
             wakeupOnEvent(
                 updateBranchData(c, "HaltFetch", Bubble, PCState(0))),
             "DrainAllInsts")
    ELSE c

\* Execute::evaluate
evaluate(s0) ==
    LET hadInput == getInput(s0) # <<>>
        s == [s0 EXCEPT !.lsq = lsqStep(@)]
        interrupted0 == s.drainState = "NotDraining" /\ isInterrupted(s)
        ti == IF interrupted0 /\ isInbetweenInsts(s) THEN takeInterrupt(s)
              ELSE [s |-> s, took |-> FALSE]
        interrupted == IF interrupted0 /\ isInbetweenInsts(s) THEN ti.took
                       ELSE interrupted0
        advanceFUs(s2) ==
              [s2 EXCEPT !.funcUnits =
                  [i \in 0..(numFuncUnits - 1) |-> advance(@[i])]]
    IN  The({IF ci.s.aborted THEN ci.s
             ELSE The({[s3 EXCEPT !.needToTick =
                          \/ computeNeedToTick(s3, ci.num_insts_issued,
                                               interrupted)
                          \/ ci.s.drainState = "DrainHaltFetch"]
                       : s3 \in {advanceFUs(haltFetch(ci.s))}})
             : ci \in {IF ti.took \/ ti.s.branch.reason # "NoBranch"
                       THEN [s |-> ti.s, num_insts_issued |-> 0]
                       ELSE commitAndIssue(ti.s, hadInput, interrupted)}})

\* isDrained without the test of the drain state
isDrainedAnyState(s) ==
    /\ s.inputBuffer = <<>>
    /\ s.inFlightInsts = <<>>
    /\ lsqIsDrained(s.lsq)

\* Execute::isDrained
isDrained(s) ==
    /\ s.drainState = "DrainAllInsts"
    /\ s.inputBuffer = <<>>
    /\ s.inFlightInsts = <<>>
    /\ lsqIsDrained(s.lsq)

\* drain without the test of the current state
drainAnyState(s) ==
    IF isInbetweenInsts(s)
    THEN setDrainState(wakeupOnEvent(s), "DrainHaltFetch")
    ELSE setDrainState(wakeupOnEvent(s), "DrainCurrentInst")

\* Execute::drain
drain(s) ==
    IF s.drainState = "NotDraining"
    THEN IF isInbetweenInsts(s)
         THEN setDrainState(wakeupOnEvent(s), "DrainHaltFetch")
         ELSE setDrainState(wakeupOnEvent(s), "DrainCurrentInst")
    ELSE s

\* Execute::drain, the value it returns: 0 for drained, 1 for not yet
drainReturns(s) == IF isDrained(drain(s)) THEN 0 ELSE 1

\* Execute::wakeupFetch: the branch written to the output wire
wakeupFetch(s, reason) ==
    LET fresh == [s EXCEPT !.branch = BranchBubble]
    IN  wakeupOnEvent(updateBranchData(fresh, reason, Bubble, s.thread.pc))

\* drainResume without the wakeup of fetch
drainResumeNoWakeup(s) ==
    wakeupOnEvent(setDrainState(Call(s, "drainResume", Bubble),
                                "NotDraining"))

\* Execute::drainResume
drainResume(s) ==
    wakeupFetch(setDrainState(Call(s, "drainResume", Bubble), "NotDraining"),
                "WakeupFetch")

\* -------------------------------------------------------------- actions
inputBufferSize == 2
inputWidth == 2

Install(s) ==
    /\ insts' = s.insts
    /\ inputBuffer' = s.inputBuffer
    /\ inputIndex' = s.inputIndex
    /\ funcUnits' = s.funcUnits
    /\ inFlightInsts' = s.inFlightInsts
    /\ inFUMemInsts' = s.inFUMemInsts
    /\ scoreboard' = s.scoreboard
    /\ lsq' = s.lsq
    /\ streamSeqNum' = s.streamSeqNum
    /\ lastPredictionSeqNum' = s.lastPredictionSeqNum
    /\ lastCommitWasEndOfMacroop' = s.lastCommitWasEndOfMacroop
    /\ drainState' = s.drainState
    /\ thread' = s.thread
    /\ interrupt' = s.interrupt
    /\ pcEvent' = s.pcEvent
    /\ out' = s.branch
    /\ numDiscardedOps' = s.numDiscardedOps
    /\ calls' = s.calls
    /\ retired' = s.retired
    /\ needToTick' = s.needToTick
    /\ aborted' = s.aborted
    /\ params' = params

Running == phase = "idle" /\ ~aborted

MakeInst(t, id) ==
    [present |-> TRUE, isFault |-> t.isFault, opClass |-> t.opClass,
     isMemRef |-> t.isMemRef, srcRegs |-> t.srcRegs,
     destRegs |-> t.destRegs, microop |-> t.microop,
     isSerializeAfter |-> t.isSerializeAfter,
     isMemBarrier |-> t.isMemBarrier, isPrefetch |-> t.isPrefetch,
     predictedTaken |-> t.predictedTaken,
     predictedTarget |-> t.predictedTarget, pc |-> t.pc,
     oFault |-> t.oFault, oNpc |-> t.oNpc, oSuspend |-> t.oSuspend,
     oPredicate |-> t.oPredicate, oError |-> t.oError,
     streamSeqNum |-> fetchStream, predictionSeqNum |-> fetchPred,
     fuIndex |-> Decoration.fuIndex,
     extraCommitDelay |-> Decoration.extraCommitDelay,
     extraCommitDelayExpr |-> Decoration.extraCommitDelayExpr,
     minimumCommitCycle |-> Decoration.minimumCommitCycle,
     inLSQ |-> Decoration.inLSQ, canEarlyIssue |-> Decoration.canEarlyIssue,
     instToWaitFor |-> Decoration.instToWaitFor, issueOrder |-> 0]

\* The upstream stage pushes one batch (a line of inputWidth slots, bubbles
\* allowed) of instructions drawn from T into the input buffer
Deliver(T, cap) ==
    /\ Running
    /\ Len(inputBuffer) < inputBufferSize
    /\ \E line \in [1..inputWidth -> T \cup {NoInst}] :
          LET n == Cardinality({i \in 1..inputWidth : line[i] # NoInst})
              idOf(i) == nextExecSeq +
                         Cardinality({j \in 1..(i - 1) : line[j] # NoInst})
          IN  /\ n > 0
              /\ nextExecSeq + n - 1 <= cap
              /\ insts' = [k \in DOMAIN insts |->
                             IF \E i \in 1..inputWidth :
                                    line[i] # NoInst /\ idOf(i) = k
                             THEN LET i == CHOOSE i \in 1..inputWidth :
                                              line[i] # NoInst /\ idOf(i) = k
                                  IN  MakeInst(line[i], k)
                             ELSE insts[k]]
              /\ inputBuffer' =
                     Append(inputBuffer,
                            [i \in 1..inputWidth |->
                                IF line[i] # NoInst THEN idOf(i) ELSE Bubble])
              /\ nextExecSeq' = nextExecSeq + n
    /\ UNCHANGED <<fetchStream, fetchPred, inputIndex, funcUnits,
                   inFlightInsts, inFUMemInsts, scoreboard, lsq, streamSeqNum,
                   lastPredictionSeqNum, lastCommitWasEndOfMacroop,
                   drainState, thread, interrupt, pcEvent, out, curCycle,
                   phase, numDiscardedOps, calls, retired, envCalls,
                   needToTick, aborted, params>>

\* One cycle: Execute::evaluate
Evaluate ==
    /\ Running
    /\ curCycle < MaxCycle
    /\ \E s \in {evaluate(Me)} : Install(s)
    /\ curCycle' = curCycle + 1
    /\ phase' = "latch"
    /\ UNCHANGED <<nextExecSeq, fetchStream, fetchPred, envCalls>>

\* The output latch moves on: the redirect reaches Fetch, which follows a
\* stream change, and the wire is a bubble again
LatchAdvance ==
    /\ phase = "latch"
    /\ ~aborted
    /\ phase' = "idle"
    /\ out' = BranchBubble
    /\ fetchStream' = IF isStreamChange(out.reason) THEN out.newStreamSeqNum
                      ELSE fetchStream
    /\ fetchPred' = IF isStreamChange(out.reason)
                    THEN out.newPredictionSeqNum ELSE fetchPred
    /\ UNCHANGED <<insts, nextExecSeq, inputBuffer, inputIndex, funcUnits,
                   inFlightInsts, inFUMemInsts, scoreboard, lsq, streamSeqNum,
                   lastPredictionSeqNum, lastCommitWasEndOfMacroop,
                   drainState, thread, interrupt, pcEvent, curCycle,
                   numDiscardedOps, calls, retired, envCalls, needToTick,
                   aborted, params>>

\* The engine is not ticked for a cycle it did not ask for
SkipCycle ==
    /\ Running
    /\ ~needToTick
    /\ out = BranchBubble
    /\ curCycle < MaxCycle
    /\ curCycle' = curCycle + 1
    /\ UNCHANGED <<insts, nextExecSeq, fetchStream, fetchPred, inputBuffer,
                   inputIndex, funcUnits, inFlightInsts, inFUMemInsts,
                   scoreboard, lsq, streamSeqNum, lastPredictionSeqNum,
                   lastCommitWasEndOfMacroop, drainState, thread, interrupt,
                   pcEvent, out, phase, numDiscardedOps, calls, retired,
                   envCalls, needToTick, aborted, params>>

\* The memory system answers an access
MemRespond ==
    /\ Running
    /\ \E i \in 1..Len(lsq.transfers) :
          /\ lsq.transfers[i].state = "inmem"
          /\ lsq' = [lsq EXCEPT !.transfers[i].state = "complete"]
    /\ UNCHANGED <<insts, nextExecSeq, fetchStream, fetchPred, inputBuffer,
                   inputIndex, funcUnits, inFlightInsts, inFUMemInsts,
                   scoreboard, streamSeqNum, lastPredictionSeqNum,
                   lastCommitWasEndOfMacroop, drainState, thread, interrupt,
                   pcEvent, out, curCycle, phase, numDiscardedOps, calls,
                   retired, envCalls, needToTick, aborted, params>>

EnvCall ==
    /\ Running
    /\ envCalls < MaxEnvCalls
    /\ envCalls' = envCalls + 1
    /\ UNCHANGED <<nextExecSeq, fetchStream, fetchPred, curCycle, phase>>

\* An interrupt is posted; posting wakes a suspended thread
RaiseInterrupt ==
    /\ EnvCall
    /\ ~interrupt
    /\ \E s \in {[Me EXCEPT !.interrupt = TRUE,
                           !.thread.status = "Active"]} : Install(s)

\* A PC event is scheduled at the PC the thread is at
SchedulePCEvent ==
    /\ EnvCall
    /\ ~pcEvent
    /\ \E s \in {[Me EXCEPT !.pcEvent = TRUE]} : Install(s)

\* Execute::drain
Drain ==
    /\ EnvCall
    /\ \E s \in {drain(Me)} : Install(s)

\* Execute::drainResume
DrainResume ==
    /\ EnvCall
    /\ \E s \in {drainResume(Me)} : Install(s)

\* The parameters of the configuration the pipeline is checked under
ConfiguredParams ==
    [executeIssueLimit |-> issueLimit,
     executeMemoryIssueLimit |-> memoryIssueLimit,
     executeCommitLimit |-> commitLimit,
     executeMemoryCommitLimit |-> memoryCommitLimit,
     executeInputBufferSize |-> inputBufferSize]

\* Execute::Execute, its checks of the parameters: TRUE for fatal()
ExecuteFatal(p) ==
    \/ p.executeCommitLimit < 1
    \/ p.executeIssueLimit < 1
    \/ p.executeMemoryIssueLimit < 1
    \/ p.executeMemoryCommitLimit > p.executeCommitLimit
    \/ p.executeInputBufferSize < 1

\* Execute::Execute, the fields it initialises
InitFields ==
    /\ nextExecSeq = 1
    /\ fetchStream = firstStreamSeqNum
    /\ fetchPred = firstPredictionSeqNum
    /\ inputBuffer = <<>>
    /\ inputIndex = 0
    /\ funcUnits = [i \in 0..(numFuncUnits - 1) |->
                       [pipe |-> EmptyPipe(i), stalled |-> FALSE]]
    /\ inFlightInsts = <<>>
    /\ inFUMemInsts = <<>>
    /\ scoreboard = [r \in Regs |-> FreeReg]
    /\ lsq = [transfers |-> <<>>, lastMemBarrier |-> 0]
    /\ streamSeqNum = firstStreamSeqNum
    /\ lastPredictionSeqNum = firstPredictionSeqNum
    /\ lastCommitWasEndOfMacroop = TRUE
    /\ drainState = "NotDraining"
    /\ thread = [status |-> "Active", pc |-> PCState(1)]
    /\ interrupt = FALSE
    /\ pcEvent = FALSE
    /\ out = BranchBubble
    /\ curCycle = 0
    /\ numDiscardedOps = 0
    /\ calls = <<>>
    /\ retired = <<>>
    /\ envCalls = 0
    /\ needToTick = FALSE
    /\ aborted = FALSE

Init ==
    /\ InitFields
    /\ insts = [k \in 1..MaxInsts |-> NoInst]
    /\ phase = "idle"
    /\ params = ConfiguredParams

CoreTemplates ==
    {tWriteR1, tReadR1, tNoCost, tLoad, tLoadRespFault, tPrefetchRespFault,
     tJump}

\* The pipeline on its own: issue, commit, memory responses, redirects
Next ==
    \/ Deliver(CoreTemplates, MaxInsts)
    \/ Evaluate
    \/ LatchAdvance
    \/ SkipCycle
    \/ MemRespond

Spec == Init /\ [][Next]_vars

\* Branches of every kind: taken or not, predicted or not, predicted to the
\* fall-through or to the jump target, serialising or not
BranchTemplates ==
    {[BaseInst EXCEPT !.oNpc = n, !.predictedTaken = p,
                      !.predictedTarget = g, !.isSerializeAfter = f]
       : n \in {2, 3}, p \in BOOLEAN, g \in {2, 3}, f \in BOOLEAN}

NextBranch ==
    \/ Deliver(BranchTemplates, MaxInsts - 1)
    \/ Evaluate
    \/ LatchAdvance
    \/ SkipCycle

SpecBranch == Init /\ [][NextBranch]_vars

\* Redirects of every kind: branches, a suspending instruction, interrupts,
\* PC events, drain and resume
RedirectTemplates ==
    {tJump, tPredNotTaken, tPredWrongTarget, tPredRight, tQuiesce,
     tFirstUop, tFault}

NextRedirect ==
    \/ Deliver(RedirectTemplates, MaxInsts - 1)
    \/ Evaluate
    \/ LatchAdvance
    \/ SkipCycle
    \/ RaiseInterrupt
    \/ SchedulePCEvent
    \/ Drain
    \/ DrainResume

SpecRedirect == Init /\ [][NextRedirect]_vars

\* Draining with macro-ops and faults of every kind in flight
DrainTemplates ==
    {tFirstUop, tLastUop, tFirstUopFault, tFault, tLoadInitFault,
     tLoadRespFault}

NextDrain ==
    \/ Deliver(DrainTemplates, MaxInsts - 1)
    \/ Evaluate
    \/ LatchAdvance
    \/ SkipCycle
    \/ MemRespond
    \/ Drain
    \/ DrainResume

SpecDrain == Init /\ [][NextDrain]_vars

\* Memory responses of every kind: plain, faulting, error-flagged, both,
\* and failed requests, with a drain to have responses discarded
tLoadError == [tLoad EXCEPT !.oError = TRUE]
tLoadRespFaultError == [tLoadRespFault EXCEPT !.oError = TRUE]
tLoadFailedError == [tLoadError EXCEPT !.oPredicate = FALSE]

MemTemplates ==
    {tLoad, tLoadError, tLoadRespFault, tLoadRespFaultError,
     tLoadFailedError}

NextMem ==
    \/ Deliver(MemTemplates, MaxInsts - 1)
    \/ Evaluate
    \/ LatchAdvance
    \/ SkipCycle
    \/ MemRespond
    \/ Drain

SpecMem == Init /\ [][NextMem]_vars

\* Instructions with an extra commit delay, fixed (IntMult) or with a delay
\* expression on top (IntDiv), among plain and no-cost ones
TimingTemplates == {tMult, tDiv, tWriteR1, tReadR1, tNoCost}

NextTiming ==
    \/ Deliver(TimingTemplates, MaxInsts)
    \/ Evaluate
    \/ LatchAdvance
    \/ SkipCycle

SpecTiming == Init /\ [][NextTiming]_vars

\* Execute::issue called with only_issue_microops set, on the input the
\* engine holds: macro-instructions broken into microops, and whole ones
IssueOnlyMicroops ==
    /\ Running
    /\ getInput(Me) # <<>>
    /\ \E s \in {issue(Me, TRUE).s} : Install(s)
    /\ UNCHANGED <<nextExecSeq, fetchStream, fetchPred, envCalls, curCycle,
                   phase>>

MicroopTemplates == {tFirstUop, tLastUop, tWriteR1, tFault}

NextMicroops ==
    \/ Deliver(MicroopTemplates, MaxInsts)
    \/ IssueOnlyMicroops
    \/ Evaluate
    \/ LatchAdvance

SpecMicroops == Init /\ [][NextMicroops]_vars

\* Instructions left over from a stream that a jump has ended, barriers,
\* loads and register writers among them
DiscardTemplates == {tJump, tBarrier, tLoad, tWriteR1}

NextDiscard ==
    \/ Deliver(DiscardTemplates, MaxInsts)
    \/ Evaluate
    \/ LatchAdvance
    \/ SkipCycle
    \/ MemRespond

SpecDiscard == Init /\ [][NextDiscard]_vars

\* Enough instructions to fill inFlightInsts: loads, which wait at the head
\* for their responses, with no-cost and plain instructions behind them
MaxQueueInsts == 4

QueueTemplates == {tLoad, tLoadR1, tNoCost, tWriteR1}

InitQueue ==
    /\ InitFields
    /\ insts = [k \in 1..MaxQueueInsts |-> NoInst]
    /\ phase = "idle"
    /\ params = ConfiguredParams

NextQueue ==
    \/ Deliver(QueueTemplates, MaxQueueInsts)
    \/ Evaluate
    \/ LatchAdvance
    \/ SkipCycle
    \/ MemRespond

SpecQueue == InitQueue /\ [][NextQueue]_vars

\* Fetch makes a branch prediction of its own: the instructions it sends
\* from now on carry the next predictionSeqNum
MaxPred == 2

Predict ==
    /\ phase = "idle"
    /\ ~aborted
    /\ fetchPred < MaxPred
    /\ fetchPred' = fetchPred + 1
    /\ UNCHANGED <<insts, nextExecSeq, fetchStream, inputBuffer, inputIndex,
                   funcUnits, inFlightInsts, inFUMemInsts, scoreboard, lsq,
                   streamSeqNum, lastPredictionSeqNum,
                   lastCommitWasEndOfMacroop, drainState, thread, interrupt,
                   pcEvent, out, curCycle, phase, numDiscardedOps, calls,
                   retired, envCalls, needToTick, aborted, params>>

\* Redirects of branches predicted rightly and not predicted, of interrupts
\* and of drains, with instructions that carry different predictionSeqNums
NextPredict ==
    \/ Deliver({tPredRight, tJump}, MaxInsts - 1)
    \/ Predict
    \/ Evaluate
    \/ LatchAdvance
    \/ RaiseInterrupt
    \/ Drain
    \/ DrainResume

SpecPredict == Init /\ [][NextPredict]_vars

\* Construction from parameters of every kind, legal or not
MaxParam == 2

ParamValues == (0 - MaxParam)..MaxParam

ParamSets ==
    [executeIssueLimit : ParamValues,
     executeMemoryIssueLimit : ParamValues,
     executeCommitLimit : ParamValues,
     executeMemoryCommitLimit : ParamValues,
     executeInputBufferSize : ParamValues]

InitConstruct ==
    /\ InitFields
    /\ insts = [k \in 1..MaxInsts |-> NoInst]
    /\ phase = "new"
    /\ params \in ParamSets

\* Execute::Execute
Construct ==
    /\ phase = "new"
    /\ phase' = "idle"
    /\ aborted' = ExecuteFatal(params)
    /\ UNCHANGED <<insts, nextExecSeq, fetchStream, fetchPred, inputBuffer,
                   inputIndex, funcUnits, inFlightInsts, inFUMemInsts,
                   scoreboard, lsq, streamSeqNum, lastPredictionSeqNum,
                   lastCommitWasEndOfMacroop, drainState, thread, interrupt,
                   pcEvent, out, curCycle, numDiscardedOps, calls, retired,
                   envCalls, needToTick, params>>

NextConstruct == Construct

SpecConstruct == InitConstruct /\ [][NextConstruct]_vars

\* ---------------------------------------------------------------- claims
Committed == {a \in DOMAIN retired : retired[a].committed}

CallsOf(what) == {i \in DOMAIN calls : calls[i].call = what}

CallsFor(what, id) == {i \in CallsOf(what) : calls[i].inst = id}

\* C1: of two instructions of one stream, the one pushed into inFlightInsts
\* first commits first: at an earlier place in the order of commits and in an
\* earlier or the same cycle
C1_InOrderCommit ==
    \A a, b \in Committed :
        (/\ insts[retired[a].inst].streamSeqNum =
                insts[retired[b].inst].streamSeqNum
         /\ insts[retired[a].inst].issueOrder <
                insts[retired[b].inst].issueOrder)
        => (a < b /\ retired[a].cycle <= retired[b].cycle)

\* C1 witness: a load, which goes through the short FU 1, has committed in a
\* later cycle than the instruction issued before it into the long FU 0
C1_Witness ==
    /\ \E a, b \in Committed :
          /\ a < b
          /\ insts[retired[a].inst].issueOrder <
                 insts[retired[b].inst].issueOrder
          /\ insts[retired[a].inst].streamSeqNum =
                 insts[retired[b].inst].streamSeqNum
          /\ insts[retired[a].inst].fuIndex = 0
          /\ ~insts[retired[a].inst].isMemRef
          /\ insts[retired[b].inst].isMemRef
          /\ retired[a].cycle < retired[b].cycle

\* C2: whatever commit processes with a streamSeqNum other than the engine's
\* is discarded, and execute, initiateAcc, completeAcc and invoke are only
\* ever called for an instruction of the engine's current stream
C2_DiscardCorrectness ==
    /\ \A i \in DOMAIN calls :
          calls[i].call \in {"execute", "initiateAcc", "completeAcc",
                             "invoke", "handleMemResponse"}
          => insts[calls[i].inst].streamSeqNum = calls[i].stream
    /\ \A a \in DOMAIN retired :
          insts[retired[a].inst].streamSeqNum # retired[a].streamBefore
          => retired[a].discarded /\ ~retired[a].committed

\* C2 witness: an instruction of the old stream was discarded from its memory
\* response and another from its functional unit
C2_Witness ==
    /\ \E a \in DOMAIN retired :
          /\ retired[a].discarded
          /\ insts[retired[a].inst].streamSeqNum # retired[a].streamBefore
          /\ insts[retired[a].inst].inLSQ
    /\ \E a \in DOMAIN retired :
          /\ retired[a].discarded
          /\ insts[retired[a].inst].streamSeqNum # retired[a].streamBefore
          /\ ~insts[retired[a].inst].inLSQ

\* C3 as stated: no instruction, a no-cost one included, is issued in a cycle
\* before the ready-cycle of one of its source registers
C3_ScoreboardGatesAll ==
    \A i \in CallsOf("issue") : calls[i].arg.srcReturnCycle <= calls[i].cycle

\* C3 amended: no instruction issued into a functional unit is issued in a
\* cycle before the ready-cycle of one of its source registers
C3_ScoreboardGatesFUs ==
    \A i \in CallsOf("issue") :
        calls[i].arg.fu # noCostFUIndex
        => calls[i].arg.srcReturnCycle <= calls[i].cycle

\* C3 witness: an instruction went into a functional unit in the very cycle
\* its source register became ready
C3_Witness ==
    \E i \in CallsOf("issue") :
        /\ calls[i].arg.fu # noCostFUIndex
        /\ calls[i].arg.srcReturnCycle = calls[i].cycle
        /\ calls[i].cycle > 0

\* C4: a functional unit holds only faults and instructions of an operation
\* class it provides, never a no-cost instruction; a no-cost instruction in
\* flight carries the no-cost unit index
C4_CapabilityGating ==
    /\ \A f \in DOMAIN funcUnits : \A k \in DOMAIN funcUnits[f].pipe :
          LET id == funcUnits[f].pipe[k]
          IN  id # Bubble =>
                 /\ ~isNoCostInst(insts[id])
                 /\ insts[id].isFault \/ provides(f, insts[id].opClass)
    /\ \A i \in CallsOf("issue") :
          IF isNoCostInst(insts[calls[i].inst])
          THEN calls[i].arg.fu = noCostFUIndex
          ELSE \/ insts[calls[i].inst].isFault
               \/ provides(calls[i].arg.fu, insts[calls[i].inst].opClass)
    /\ \A k \in 1..Len(inFlightInsts) :
          isNoCostInst(insts[inFlightInsts[k]])
          => insts[inFlightInsts[k]].fuIndex = noCostFUIndex

\* C4 witness: a load sits in FU 1, the only unit that provides MemRead, after
\* FU 0 was passed over, while a no-cost instruction is in flight
C4_Witness ==
    /\ \E k \in DOMAIN funcUnits[1].pipe :
          /\ funcUnits[1].pipe[k] # Bubble
          /\ insts[funcUnits[1].pipe[k]].opClass = "MemRead"
    /\ funcUnits[0].pipe = EmptyPipe(0)
    /\ \E k \in 1..Len(inFlightInsts) :
          /\ isNoCostInst(insts[inFlightInsts[k]])
          /\ insts[inFlightInsts[k]].fuIndex = noCostFUIndex

\* With nothing left to work on while a drain is on
DrainStalled ==
    /\ phase = "idle"
    /\ ~aborted
    /\ drainState # "NotDraining"
    /\ inputBuffer = <<>>
    /\ inFlightInsts = <<>>
    /\ lsqIsDrained(lsq)
    /\ out = BranchBubble

\* C5 (in a form a finite run refutes): once draining with nothing left in
\* the input buffer, in flight or in the memory queue, two more
\* evaluate cycles reach isDrained
C5_DrainConverges ==
    DrainStalled => isDrained(evaluate(evaluate(Me)))

\* The reason the claim gives for each combination
ClaimedReason(predictedTaken, forced, mustBranch, targetsEqual) ==
    IF predictedTaken /\ ~forced /\ ~mustBranch THEN "BadlyPredictedBranch"
    ELSE IF predictedTaken /\ ~forced /\ mustBranch /\ targetsEqual
    THEN "CorrectlyPredictedBranch"
    ELSE IF predictedTaken /\ ~forced /\ mustBranch /\ ~targetsEqual
    THEN "BadlyPredictedBranchTarget"
    ELSE IF ~predictedTaken /\ mustBranch THEN "UnpredictedBranch"
    ELSE "NoBranch"

\* C6 as stated: tryToBranch settles on the reason of the claim's table
C6_BranchTable ==
    \A i \in CallsOf("tryToBranch") :
        calls[i].arg.reason =
            ClaimedReason(calls[i].arg.predictedTaken,
                          calls[i].arg.force_branch,
                          calls[i].arg.must_branch,
                          calls[i].arg.targetsEqual)

\* C6 amended: as the claim's table, but a forced branch of a predicted-taken
\* instruction is an UnpredictedBranch
C6_BranchTableForced ==
    \A i \in CallsOf("tryToBranch") :
        calls[i].arg.reason =
            IF calls[i].arg.predictedTaken /\ calls[i].arg.force_branch
            THEN "UnpredictedBranch"
            ELSE ClaimedReason(calls[i].arg.predictedTaken,
                               calls[i].arg.force_branch,
                               calls[i].arg.must_branch,
                               calls[i].arg.targetsEqual)

\* C6 witness: a predicted-taken branch that went where it was not predicted
\* to go committed together with a forced branch of a predicted-taken
\* instruction
C6_Witness ==
    /\ \E i \in CallsOf("tryToBranch") :
          calls[i].arg.reason = "BadlyPredictedBranchTarget"
    /\ \E a \in Committed :
          /\ insts[retired[a].inst].predictedTaken
          /\ insts[retired[a].inst].isSerializeAfter

GenuineReasons ==
    {"BadlyPredictedBranch", "BadlyPredictedBranchTarget",
     "UnpredictedBranch", "Interrupt", "SuspendThread", "HaltFetch"}

Redirects ==
    {i \in CallsOf("updateBranchData") :
        calls[i].arg.branch.reason \in GenuineReasons}

\* C7: each redirect for a genuine stream change leaves streamSeqNum one
\* higher than it found it and carries the new value; streamSeqNum never
\* decreases, and where it changes it ends at the value the last redirect
\* left
C7_StreamIncrements ==
    /\ [](\A i \in Redirects :
             /\ calls[i].stream = calls[i].arg.before + 1
             /\ calls[i].arg.branch.newStreamSeqNum = calls[i].stream)
    /\ [][/\ streamSeqNum' >= streamSeqNum
          /\ streamSeqNum' # streamSeqNum =>
                \E i \in DOMAIN calls' :
                    /\ calls'[i].call = "updateBranchData"
                    /\ calls'[i].stream = streamSeqNum'
                    /\ \A j \in DOMAIN calls' :
                          j > i => calls'[j].call # "updateBranchData"]_vars

\* C7 witness: one evaluate made two redirects, the second the HaltFetch of a
\* drain, and each raised streamSeqNum by one
C7_Witness ==
    /\ phase = "latch"
    /\ \E i, j \in Redirects :
          /\ i < j
          /\ calls[j].arg.branch.reason = "HaltFetch"
          /\ calls[j].arg.before = calls[i].stream
    /\ out.reason = "HaltFetch"
    /\ out.newStreamSeqNum = streamSeqNum

\* What C8 says of the handling of the response of instruction id
FaultHandled(id) ==
    /\ CallsFor("completeAcc", id) = {}
    /\ Cardinality(CallsFor("invoke", id)) = 1
    /\ \A k \in 1..Len(lsq.transfers) : lsq.transfers[k].inst # id
    /\ Cardinality(CallsFor("updateBranchData", id)) = 1
    /\ \A i \in CallsFor("tryToBranch", id) : calls[i].arg.reason # "NoBranch"

FaultsRaised ==
    {id \in 1..MaxInsts :
        /\ insts[id].present
        /\ \/ /\ insts[id].isFault
              /\ \E a \in DOMAIN retired :
                    /\ retired[a].inst = id
                    /\ ~retired[a].discarded
                    /\ retired[a].cycle = curCycle - 1
           \/ /\ insts[id].oFault = "exec"
              /\ CallsFor("execute", id) # {}
           \/ /\ insts[id].oFault = "exec"
              /\ CallsFor("initiateAcc", id) # {}
              /\ \E a \in DOMAIN retired :
                    /\ retired[a].inst = id
                    /\ retired[a].cycle = curCycle - 1
           \/ /\ insts[id].oFault = "resp"
              /\ ~insts[id].isPrefetch
              /\ CallsFor("handleMemResponse", id) # {}
           \/ /\ insts[id].oFault = "complete"
              /\ CallsFor("completeAcc", id) # {}}

\* C9: at the end of an evaluate in which a fault was raised while
\* committing, the fault has been invoked and the output is a redirect
C9_FaultsRedirect ==
    phase = "latch" =>
        \A id \in FaultsRaised :
            /\ CallsFor("invoke", id) # {}
            /\ out.reason # "NoBranch"

IsSetDrainState(c) == c.call = "setDrainState"

\* The drainState changes the calls log tells of lead from `from` to `to`
\* along the edges given
RECURSIVE DrainPath(_, _, _, _)
DrainPath(log, from, to, edges) ==
    IF log = <<>> THEN from = to
    ELSE /\ Head(log).arg.from = from
         /\ <<from, Head(log).arg.to>> \in edges
         /\ DrainPath(Tail(log), Head(log).arg.to, to, edges)

\* C10: drainState changes only through setDrainState, along the edges of
\* the claim: drain() from NotDraining to DrainHaltFetch when between
\* instructions and to DrainCurrentInst otherwise; evaluate from
\* DrainCurrentInst to DrainHaltFetch once between instructions and from
\* DrainHaltFetch to DrainAllInsts; drainResume() to NotDraining.  drain()
\* in another state than NotDraining leaves drainState as it is
C10_DrainEdges ==
    /\ [](drainState # "NotDraining" => drain(Me).drainState = drainState)
    /\ [][drainState' # drainState =>
             LET log == SelectSeq(calls', IsSetDrainState)
             IN  \/ /\ curCycle' = curCycle + 1
                    /\ DrainPath(log, drainState, drainState',
                                 {<<"DrainCurrentInst", "DrainHaltFetch">>,
                                  <<"DrainHaltFetch", "DrainAllInsts">>})
                    /\ drainState = "DrainCurrentInst" =>
                          /\ lastCommitWasEndOfMacroop'
                          /\ ~accessesInFlight(lsq')
                 \/ /\ curCycle' = curCycle
                    /\ drainState = "NotDraining"
                    /\ Len(log) = 1
                    /\ DrainPath(log, drainState, drainState',
                                 IF isInbetweenInsts(Me)
                                 THEN {<<"NotDraining", "DrainHaltFetch">>}
                                 ELSE {<<"NotDraining", "DrainCurrentInst">>})
                 \/ /\ curCycle' = curCycle
                    /\ drainState' = "NotDraining"
                    /\ Len(log) = 1
                    /\ log[1].arg.to = "NotDraining"
                    /\ out'.reason = "WakeupFetch"]_vars

\* C10 witness: one evaluate took the engine from DrainCurrentInst through
\* DrainHaltFetch to DrainAllInsts
C10_Witness ==
    /\ phase = "latch"
    /\ drainState = "DrainAllInsts"
    /\ \E i, j \in CallsOf("setDrainState") :
          /\ i < j
          /\ calls[i].arg.from = "DrainCurrentInst"
          /\ calls[j].arg.to = "DrainAllInsts"

\* Nothing in the input buffer, in flight or in the memory queue
PipelineEmpty ==
    /\ inputBuffer = <<>>
    /\ inFlightInsts = <<>>
    /\ lsq.transfers = <<>>

\* C11: isDrained() is true only in DrainAllInsts with the input buffer,
\* inFlightInsts and the memory queue empty; in the other drain states it is
\* false even with the pipeline empty, and drain() called in NotDraining
\* returns not-yet-drained
C11_IsDrained ==
    /\ isDrained(Me) => drainState = "DrainAllInsts" /\ PipelineEmpty
    /\ drainState # "DrainAllInsts" => ~isDrained(Me)
    /\ drainState = "NotDraining" =>
          /\ drainReturns(Me) = 1
          /\ ~isDrained(drain(Me))

\* C11 witness: the pipeline is empty in DrainCurrentInst after a commit, so
\* only the drain state keeps isDrained() false
C11_Witness ==
    /\ drainState = "DrainCurrentInst"
    /\ PipelineEmpty
    /\ retired # <<>>
    /\ ~isDrained(Me)

\* The HaltFetch redirects the last operation made
HaltFetches ==
    {i \in CallsOf("updateBranchData") :
        calls[i].arg.branch.reason = "HaltFetch"}

\* The entries into DrainAllInsts the last operation made
EntersDrainAll ==
    {i \in CallsOf("setDrainState") : calls[i].arg.to = "DrainAllInsts"}

\* C12: a HaltFetch redirect is made only by the evaluate that takes
\* drainState from DrainHaltFetch to DrainAllInsts, once, and is on the
\* output at the end of that evaluate; drainState enters DrainAllInsts
\* only with that HaltFetch on the output
C12_HaltFetch ==
    /\ [](/\ Cardinality(HaltFetches) <= 1
          /\ \A i \in HaltFetches :
                /\ i + 1 \in EntersDrainAll
                /\ calls[i + 1].arg.from = "DrainHaltFetch"
                /\ phase = "latch" => out = calls[i].arg.branch
          /\ \A j \in EntersDrainAll : j - 1 \in HaltFetches
          /\ out.reason = "HaltFetch" => phase = "latch" /\ HaltFetches # {})
    /\ [][(drainState' = "DrainAllInsts" /\ drainState # "DrainAllInsts")
             => /\ curCycle' = curCycle + 1
                /\ out'.reason = "HaltFetch"
                /\ out'.newStreamSeqNum = streamSeqNum']_vars
    /\ [][out'.reason = "HaltFetch"
             => (drainState' = "DrainAllInsts"
                 /\ drainState \in {"DrainCurrentInst", "DrainHaltFetch"})]_vars

\* C12 witness: an evaluate took the engine from DrainHaltFetch to
\* DrainAllInsts with instructions still in flight and left the HaltFetch
\* on the output
C12_Witness ==
    /\ phase = "latch"
    /\ drainState = "DrainAllInsts"
    /\ out.reason = "HaltFetch"
    /\ HaltFetches # {}
    /\ \E j \in EntersDrainAll : calls[j].arg.from = "DrainHaltFetch"
    /\ inFlightInsts # <<>>

\* The step is an evaluate that runs commit, found in drain state d
EvaluateCommits(d) ==
    /\ phase = "idle"
    /\ phase' = "latch"
    /\ drainState = d
    /\ out = BranchBubble

\* C13: an evaluate that runs commit in DrainAllInsts leaves the input
\* buffer empty, issues nothing (inFlightInsts only loses entries), calls
\* neither execute, initiateAcc nor completeAcc, and whatever it retires
\* is discarded, not committed
C13_DrainAllDiscards ==
    [][EvaluateCommits("DrainAllInsts") =>
          /\ inputBuffer' = <<>>
          /\ \A i \in DOMAIN calls' :
                calls'[i].call \notin
                    {"issue", "execute", "initiateAcc", "completeAcc"}
          /\ Len(inFlightInsts') <= Len(inFlightInsts)
          /\ inFlightInsts' =
                 SubSeq(inFlightInsts,
                        Len(inFlightInsts) - Len(inFlightInsts') + 1,
                        Len(inFlightInsts))
          /\ Len(retired') >= Len(retired)
          /\ \A a \in (Len(retired) + 1)..Len(retired') :
                retired'[a].discarded /\ ~retired'[a].committed]_vars

\* C13 witness: in DrainAllInsts an instruction was discarded from
\* inFlightInsts and an instruction delivered but never issued is gone from
\* the input buffer
C13_Witness ==
    /\ phase = "latch"
    /\ drainState = "DrainAllInsts"
    /\ HaltFetches = {}
    /\ inputBuffer = <<>>
    /\ \E a \in DOMAIN retired :
          /\ retired[a].cycle = curCycle - 1
          /\ retired[a].discarded
    /\ \E id \in 1..MaxInsts :
          /\ insts[id].present
          /\ insts[id].issueOrder = 0
          /\ \A a \in DOMAIN retired : retired[a].inst # id

TakesInterrupt == interrupt /\ ~interrupt'

IllegalParams(p) ==
    \/ p.executeIssueLimit <= 0
    \/ p.executeCommitLimit <= 0
    \/ p.executeMemoryIssueLimit <= 0
    \/ p.executeMemoryCommitLimit <= 0
    \/ p.executeMemoryCommitLimit > p.executeCommitLimit
    \/ p.executeInputBufferSize < 1

\* C16: construction from illegal parameters ends in fatal()
C16_ConstructorFatal ==
    (phase # "new" /\ IllegalParams(params)) => aborted

\* The responses handled by handleMemResponse in this step whose packet is
\* flagged as an error (a failed request has no packet)
ErrorResponsesHandled ==
    {id \in 1..MaxInsts :
        /\ \E i \in DOMAIN calls' :
              calls'[i].call = "handleMemResponse" /\ calls'[i].inst = id
        /\ phase = "idle" /\ phase' = "latch"
        /\ insts[id].oError
        /\ lsq.transfers # <<>>
        /\ lsq.transfers[1].inst = id
        /\ ~lsq.transfers[1].failed}

\* What the claim asks for an instruction: fatal(), completeAcc not called
\* and the instruction still at the head of inFlightInsts
AbortsOn(id) ==
    /\ aborted'
    /\ \A i \in DOMAIN calls' :
          calls'[i].inst = id => calls'[i].call \notin {"completeAcc", "invoke"}
    /\ retired' = retired
    /\ inFlightInsts' = inFlightInsts

\* C17 as stated: an error-flagged response handled at commit for an
\* instruction that is not discarded ends in fatal(), whatever else the
\* response carries
C17_ErrorResponseAll ==
    [][\A id \in ErrorResponsesHandled : AbortsOn(id)]_vars

\* C17: an error-flagged response that carries no fault, handled at commit
\* for an instruction that is not discarded, ends in fatal() and the
\* instruction is not completed
C17_ErrorResponse ==
    [][\A id \in ErrorResponsesHandled :
          insts[id].oFault # "resp" => AbortsOn(id)]_vars

\* C17 witness: fatal() on the error-flagged response of a load
C17_Witness ==
    /\ aborted
    /\ \E i \in CallsOf("handleMemResponse") :
          /\ insts[calls[i].inst].oError
          /\ insts[calls[i].inst].oFault = "none"
          /\ inFlightInsts # <<>>
          /\ inFlightInsts[1] = calls[i].inst
          /\ lsq.transfers # <<>>
          /\ lsq.transfers[1].inst = calls[i].inst
          /\ ~lsq.transfers[1].failed

\* C18: inFlightInsts and inFUMemInsts never hold more entries than their
\* capacity, the sum of the latencies of the functional units
C18_QueuesBounded ==
    /\ Len(inFlightInsts) <= total_slots
    /\ Len(inFUMemInsts) <= total_slots

\* inFlightInsts is in strictly increasing order of execSeqNum
InFlightSorted ==
    \A i, j \in DOMAIN inFlightInsts :
        i < j => inFlightInsts[i] < inFlightInsts[j]

\* This step takes the first k entries off inFlightInsts, each one by a pop
\* of the head of the moment, and what it adds goes behind the rest
PopsHeads(k) ==
    /\ Len(retired') = Len(retired) + k
    /\ \A a \in 1..k : retired'[Len(retired) + a].head = inFlightInsts[a]
    /\ Len(inFlightInsts') >= Len(inFlightInsts) - k
    /\ \A i \in 1..(Len(inFlightInsts) - k) :
          inFlightInsts'[i] = inFlightInsts[k + i]
    /\ \A i \in (Len(inFlightInsts) - k + 1)..Len(inFlightInsts') :
          insts[inFlightInsts'[i]].issueOrder = 0

\* C19: inFlightInsts holds its instructions in strictly increasing order
\* of execSeqNum, and an entry leaves it only by a pop of the head
C19_InFlightOrder ==
    /\ []InFlightSorted
    /\ [][\E k \in 0..Len(inFlightInsts) : PopsHeads(k)]_vars

\* C19 witness: the head was popped last cycle, and two or more later
\* instructions are in the queue
C19_Witness ==
    /\ phase = "latch"
    /\ Len(inFlightInsts) >= 2
    /\ retired # <<>>
    /\ retired[Len(retired)].cycle = curCycle - 1
    /\ retired[Len(retired)].head < inFlightInsts[1]
    /\ inFlightInsts[1] < inFlightInsts[2]

\* The slots of the input buffer not yet stepped over, in order
RECURSIVE Flatten(_)
Flatten(buf) == IF buf = <<>> THEN <<>> ELSE buf[1] \o Flatten(Tail(buf))

PendingInput(buf, idx) ==
    IF buf = <<>> THEN <<>>
    ELSE SubSeq(buf[1], idx + 1, Len(buf[1])) \o Flatten(Tail(buf))

\* The calls of this step that issue or discard an instruction at issue
IssueCalls ==
    {i \in DOMAIN calls' : calls'[i].call \in {"issue", "issueDiscard"}}

\* This step runs issue: an evaluate that does not pop all its input
RunsIssue ==
    /\ phase = "idle" /\ phase' = "latch"
    /\ drainState # "DrainAllInsts"

\* This step steps over the first k pending slots and no other: each is a
\* bubble or an instruction issued or discarded by this step, in the order
\* of the slots, and nothing else is issued
StepsOver(k) ==
    LET pending == PendingInput(inputBuffer, inputIndex)
    IN  /\ k <= Len(pending)
        /\ PendingInput(inputBuffer', inputIndex') =
               SubSeq(pending, k + 1, Len(pending))
        /\ \A a \in 1..k :
              \/ pending[a] = Bubble
              \/ \E i \in IssueCalls : calls'[i].inst = pending[a]
        /\ \A i \in IssueCalls :
              \E a \in 1..k : pending[a] = calls'[i].inst
        /\ \A i, j \in IssueCalls :
              i < j => calls'[i].inst < calls'[j].inst
        /\ \A a \in (k + 1)..Len(pending) :
              pending[a] # Bubble =>
                  insts'[pending[a]].issueOrder = insts[pending[a]].issueOrder

\* C20: issue takes the instructions of its input in order; the first one
\* that fails to issue keeps the later ones from issuing in that call, and
\* inputIndex moves only past bubbles and issued or discarded instructions
C20_InOrderIssue ==
    [][RunsIssue =>
          \E k \in 0..Len(PendingInput(inputBuffer, inputIndex)) :
              StepsOver(k)]_vars

\* C20 witness: the first instruction of a batch was issued this cycle and
\* the second, which reads the register the first writes, was not, and
\* inputIndex stays on it
C20_Witness ==
    /\ phase = "latch"
    /\ inputBuffer # <<>>
    /\ inputIndex = 1
    /\ inputBuffer[1][1] # Bubble
    /\ inputBuffer[1][2] # Bubble
    /\ \E i \in CallsOf("issue") : calls[i].inst = inputBuffer[1][1]
    /\ insts[inputBuffer[1][2]].issueOrder = 0
    /\ insts[inputBuffer[1][2]].srcRegs \cap insts[inputBuffer[1][1]].destRegs
           # {}
    /\ ~isNoCostInst(insts[inputBuffer[1][2]])

\* The instructions this step pushes into inFlightInsts
IssuedNow == {i \in DOMAIN calls' : calls'[i].call = "issue"}

IssuedMemRefsNow ==
    {i \in IssuedNow :
        /\ insts[calls'[i].inst].isMemRef
        /\ ~insts[calls'[i].inst].isFault
        /\ ~isNoCostInst(insts[calls'[i].inst])}

\* C21: a call of issue issues at most issueLimit instructions and at most
\* memoryIssueLimit memory references, and returns the number of
\* instructions it issued, discarded instructions and bubbles not counted
C21_IssueLimits ==
    [][\A i \in DOMAIN calls' :
          calls'[i].call = "issueReturns" =>
              /\ Cardinality(IssuedNow) <= issueLimit
              /\ Cardinality(IssuedMemRefsNow) <= memoryIssueLimit
              /\ calls'[i].arg.num_insts_issued = Cardinality(IssuedNow)]_vars

\* The entries this step adds to the log of pops
NewRetired == (Len(retired) + 1)..Len(retired')

\* The calls by which an instruction has an effect or a fault is raised
EffectCalls ==
    {"execute", "initiateAcc", "completeAcc", "handleMemResponse", "invoke"}

\* The call at i of this step raised a fault or produced a redirect that
\* changes the stream
EndsCommit(i) ==
    \/ calls'[i].call = "invoke"
    \/ /\ calls'[i].call = "updateBranchData"
       /\ isStreamChange(calls'[i].arg.branch.reason)

\* In this step nothing is completed after a fault or a stream change
NothingAfterRedirect ==
    /\ \A i, j \in DOMAIN calls' :
          (i < j /\ EndsCommit(i)) => calls'[j].call \notin EffectCalls
    /\ \A a \in NewRetired :
          retired'[a].stream # retired'[a].streamBefore => a = Len(retired')

\* C22 as stated: nothing is completed after a fault or a stream-changing
\* redirect of the same commit call, and a call commits at most commitLimit
\* instructions
C22_CommitStopsAll ==
    [][/\ Len(retired') >= Len(retired)
       /\ NothingAfterRedirect
       /\ Cardinality({a \in NewRetired : retired'[a].committed})
              <= commitLimit]_vars

\* C22: nothing is completed after a fault or a stream-changing redirect of
\* the same commit call, and a call commits at most commitLimit instructions
\* that are not no-cost instructions
C22_CommitStops ==
    [][/\ Len(retired') >= Len(retired)
       /\ NothingAfterRedirect
       /\ Cardinality({a \in NewRetired :
                          /\ retired'[a].committed
                          /\ ~isNoCostInst(insts[retired'[a].inst])})
              <= commitLimit]_vars

\* C22 witness: a jump committed last cycle and changed the stream, and the
\* instruction behind it, ready at the tail of its unit, is still in the queue
C22_Witness ==
    /\ phase = "latch"
    /\ retired # <<>>
    /\ retired[Len(retired)].cycle = curCycle - 1
    /\ retired[Len(retired)].committed
    /\ retired[Len(retired)].stream # retired[Len(retired)].streamBefore
    /\ inFlightInsts # <<>>
    /\ ~isNoCostInst(insts[inFlightInsts[1]])
    /\ insts[inFlightInsts[1]].streamSeqNum = retired[Len(retired)].streamBefore
    /\ front(funcUnits[insts[inFlightInsts[1]].fuIndex]) = inFlightInsts[1]

\* The instructions in inFlightInsts that have register r as a destination
\* marked in the scoreboard
WritersInFlight(r) ==
    {i \in DOMAIN inFlightInsts :
        /\ ~insts[inFlightInsts[i]].isFault
        /\ r \in insts[inFlightInsts[i]].destRegs \ {ZeroReg}}

\* C23: an instruction that leaves inFlightInsts, committed or discarded,
\* has its destinations cleared in the scoreboard in the same step, so a
\* register is marked once for each writer still in the queue and no
\* register is busy when the queue is empty; each discard at commit adds
\* one to numDiscardedOps
C23_ScoreboardCleared ==
    /\ [](\A r \in Regs :
             scoreboard[r].numResults = Cardinality(WritersInFlight(r)))
    /\ [](inFlightInsts = <<>> => \A r \in Regs : scoreboard[r] = FreeReg)
    /\ [][/\ Len(retired') >= Len(retired)
          /\ \A a \in NewRetired : retired'[a].inst = retired'[a].head
          /\ numDiscardedOps' = numDiscardedOps +
                 Cardinality({a \in NewRetired : retired'[a].discarded})]_vars

\* C23 witness: an instruction that writes a register was discarded for a
\* stream mismatch last cycle; the queue is empty, the register free and the
\* discard counted
C23_Witness ==
    /\ phase = "latch"
    /\ inFlightInsts = <<>>
    /\ numDiscardedOps > 0
    /\ retired # <<>>
    /\ retired[Len(retired)].cycle = curCycle - 1
    /\ retired[Len(retired)].discarded
    /\ insts[retired[Len(retired)].inst].streamSeqNum #
           retired[Len(retired)].streamBefore
    /\ \E r \in Regs \ {ZeroReg} :
          /\ r \in insts[retired[Len(retired)].inst].destRegs
          /\ scoreboard[r] = FreeReg

\* C24: a call of issue that finds the thread Suspended (the thread is
\* suspended by commit, before issue, or was so already) issues and discards
\* nothing and steps inputIndex over bubbles only, never past an instruction
C24_SuspendedNoIssue ==
    [][(RunsIssue /\ thread'.status = "Suspended") =>
          /\ IssueCalls = {}
          /\ \A id \in DOMAIN insts : insts'[id] = insts[id]
          /\ LET pending == PendingInput(inputBuffer, inputIndex)
             IN  \E k \in 0..Len(pending) :
                    /\ PendingInput(inputBuffer', inputIndex') =
                           SubSeq(pending, k + 1, Len(pending))
                    /\ \A a \in 1..k : pending[a] = Bubble]_vars

\* C24 witness: issue ran with the thread suspended and left an instruction
\* of the current stream, with an empty pipeline before it, where it was
C24_Witness ==
    /\ phase = "latch"
    /\ thread.status = "Suspended"
    /\ \E i \in CallsOf("issueReturns") : calls[i].arg.num_insts_issued = 0
    /\ inFlightInsts = <<>>
    /\ inputBuffer # <<>>
    /\ inputIndex = 0
    /\ inputBuffer[1][1] # Bubble
    /\ insts[inputBuffer[1][1]].issueOrder = 0
    /\ insts[inputBuffer[1][1]].streamSeqNum = streamSeqNum

\* The instruction popped at a of the log ended a macro-instruction
EndsMacro(a) ==
    \/ insts[retired'[a].inst].isFault
    \/ isLastOpInInst(insts[retired'[a].inst])

\* At a an instruction is committed in DrainCurrentInst after the
\* macro-instruction in progress was retired in full during the drain
CommitsPastMacro(a) ==
    /\ retired'[a].committed
    /\ retired'[a].drainState = "DrainCurrentInst"
    /\ a > 1
    /\ retired'[a - 1].drainState = "DrainCurrentInst"
    /\ EndsMacro(a - 1)

\* C25 as stated: in DrainCurrentInst nothing is committed once the
\* macro-instruction in progress has retired in full
C25_DrainCurrentInstAll ==
    [][\A a \in NewRetired : ~CommitsPastMacro(a)]_vars

\* C25: in DrainCurrentInst, once the last pop ended a macro-instruction,
\* an instruction is committed only by the handling of its memory response;
\* nothing is executed and no access is initiated while that holds
C25_DrainCurrentInst ==
    [][(phase = "idle" /\ phase' = "latch" /\
        drainState = "DrainCurrentInst") =>
          /\ \A a \in NewRetired :
                (/\ retired'[a].committed
                 /\ IF a = Len(retired) + 1 THEN lastCommitWasEndOfMacroop
                    ELSE EndsMacro(a - 1))
                => \E i \in DOMAIN calls' :
                      /\ calls'[i].call = "handleMemResponse"
                      /\ calls'[i].inst = retired'[a].inst
          /\ (lastCommitWasEndOfMacroop /\ \A a \in NewRetired : EndsMacro(a))
                => \A i \in DOMAIN calls' :
                      calls'[i].call \notin {"execute", "initiateAcc"}]_vars

\* C25 witness: in DrainCurrentInst a load was retired on its memory
\* response after the load before it, in progress when the drain began, had
\* been retired during the drain
C25_Witness ==
    /\ phase = "latch"
    /\ Len(retired) >= 2
    /\ retired[Len(retired)].cycle = curCycle - 1
    /\ retired[Len(retired)].drainState = "DrainCurrentInst"
    /\ retired[Len(retired)].committed
    /\ retired[Len(retired) - 1].drainState = "DrainCurrentInst"
    /\ isLastOpInInst(insts[retired[Len(retired) - 1].inst])
    /\ \E i \in CallsOf("handleMemResponse") :
          calls[i].inst = retired[Len(retired)].inst

\* The places of the functional units that hold instruction id
PlacesOf(id) ==
    {fk \in (DOMAIN funcUnits) \X
             (1..MaxOf({Len(funcUnits[f].pipe) : f \in DOMAIN funcUnits})) :
        /\ fk[2] \in DOMAIN funcUnits[fk[1]].pipe
        /\ funcUnits[fk[1]].pipe[fk[2]] = id}

\* C26: an instruction issued into a functional unit went into the
\* lowest-index unit that accepted it (capable, not pushed into this cycle,
\* not stalled, with room, not suppressed, scoreboard ready), and after the
\* cycle it is in that unit and in no other
C26_LowestUnit ==
    \A i \in CallsOf("issue") :
        calls[i].arg.fu # noCostFUIndex
        => /\ calls[i].arg.fu \in calls[i].arg.accepting
           /\ \A f \in calls[i].arg.accepting : calls[i].arg.fu <= f
           /\ calls[i].cycle = curCycle - 1
                 => /\ Cardinality(PlacesOf(calls[i].inst)) = 1
                    /\ \A fk \in PlacesOf(calls[i].inst) :
                          fk[1] = calls[i].arg.fu

\* C26 witness: in one cycle an instruction went into FU 0 while FU 1 would
\* have accepted it too, and a second one that FU 0 provides for went into
\* FU 1, FU 0 being taken
C26_Witness ==
    /\ \E i \in CallsOf("issue") :
          /\ calls[i].arg.fu = 0
          /\ calls[i].arg.accepting = {0, 1}
          /\ PlacesOf(calls[i].inst) # {}
    /\ \E i \in CallsOf("issue") :
          /\ calls[i].arg.fu = 1
          /\ calls[i].arg.accepting = {1}
          /\ provides(0, insts[calls[i].inst].opClass)

\* The instructions popped from inFlightInsts by this step
PoppedNow == {retired'[a].inst : a \in NewRetired}

\* Instruction id, in flight, is neither no-cost nor in the LSQ, and is not
\* the instruction at the tail of its functional unit
OffTail(id) ==
    /\ ~isNoCostInst(insts[id])
    /\ ~insts[id].inLSQ
    /\ front(funcUnits[insts[id].fuIndex]) # id

\* C27: an instruction popped in a cycle that was neither no-cost nor in the
\* LSQ was the instruction at the tail of its functional unit; behind an
\* instruction in flight that is not at the tail of its unit, and that is not
\* sent to memory early, nothing is popped and nothing executed
C27_TailMatch ==
    [][(phase = "idle" /\ phase' = "latch") =>
          /\ \A id \in PoppedNow : ~OffTail(id)
          /\ \A k \in 1..Len(inFlightInsts) :
                (/\ OffTail(inFlightInsts[k])
                 /\ \A i \in DOMAIN calls' :
                       calls'[i].call = "initiateAcc"
                       => calls'[i].inst # inFlightInsts[k])
                => \A l \in k..Len(inFlightInsts) :
                      /\ inFlightInsts[l] \notin PoppedNow
                      /\ \A i \in DOMAIN calls' :
                            calls'[i].call = "execute"
                            => calls'[i].inst # inFlightInsts[l]]_vars

\* C27 witness: in one cycle an instruction was retired from the tail of
\* its functional unit and a no-cost instruction after it, and the next
\* one in flight, issued in an earlier cycle into a unit, stayed
C27_Witness ==
    /\ phase = "latch"
    /\ \E a, b \in DOMAIN retired :
          /\ a < b
          /\ retired[a].cycle = curCycle - 1
          /\ retired[b].cycle = curCycle - 1
          /\ ~isNoCostInst(insts[retired[a].inst])
          /\ ~insts[retired[a].inst].isMemRef
          /\ isNoCostInst(insts[retired[b].inst])
    /\ inFlightInsts # <<>>
    /\ PlacesOf(inFlightInsts[1]) # {}
    /\ \A i \in CallsOf("issue") : calls[i].inst # inFlightInsts[1]

\* The calls of this step by which commit completes an instruction, one
\* for each completion source
SourceCalls ==
    {i \in DOMAIN calls' :
        calls'[i].call \in {"handleMemResponse", "initiateAcc", "execute"}}

\* The first source call of this step is call `what` for instruction id
FirstSource(what, id) ==
    \E i \in SourceCalls :
        /\ \A j \in SourceCalls : i <= j
        /\ calls'[i].call = what
        /\ calls'[i].inst = id

\* C28: in a cycle no instruction is completed through two sources; with a
\* memory response there for the head after the step of the LSQ that
\* precedes commit, the head is the first instruction
\* completed, by that response; otherwise with an instruction that may go
\* to memory early, that one is tried first, before the head is retired;
\* and an instruction sent to memory stays in inFlightInsts (cycles that
\* end in fatal() apart)
C28_OneSource ==
    [][(phase = "idle" /\ phase' = "latch" /\ SourceCalls # {} /\
        ~aborted') =>
          /\ \A i, j \in SourceCalls :
                calls'[i].inst = calls'[j].inst => i = j
          /\ (inFlightInsts # <<>> /\ insts[inFlightInsts[1]].inLSQ /\
               findResponse(lsqStep(lsq), inFlightInsts[1]))
                => /\ NewRetired # {}
                   /\ retired'[Len(retired) + 1].inst = inFlightInsts[1]
                   /\ \/ retired'[Len(retired) + 1].discarded
                      \/ FirstSource("handleMemResponse", inFlightInsts[1])
          /\ (inFlightInsts # <<>> /\
               ~(insts[inFlightInsts[1]].inLSQ /\
                 findResponse(lsqStep(lsq), inFlightInsts[1])) /\
               earlyMemInst(Me, inFlightInsts[1]) # Bubble)
                => FirstSource("initiateAcc",
                               earlyMemInst(Me, inFlightInsts[1]))
          /\ \A i \in SourceCalls :
                (calls'[i].call = "initiateAcc" /\
                 insts[calls'[i].inst].oFault # "exec")
                => /\ insts'[calls'[i].inst].inLSQ
                   /\ calls'[i].inst \notin PoppedNow
                   /\ \E k \in 1..Len(inFlightInsts') :
                         inFlightInsts'[k] = calls'[i].inst]_vars

\* C28 witness: in one cycle the head was retired on its memory response,
\* then a load behind the next head was sent to memory early, then that
\* head was retired by execute
C28_Witness ==
    /\ phase = "latch"
    /\ \E i, j, k \in DOMAIN calls :
          /\ i < j
          /\ j < k
          /\ calls[i].call = "handleMemResponse"
          /\ calls[j].call = "initiateAcc"
          /\ calls[k].call = "execute"
          /\ calls[k].inst < calls[j].inst
          /\ insts[calls[j].inst].inLSQ
          /\ \E a \in DOMAIN retired :
                retired[a].inst = calls[k].inst /\ retired[a].committed

\* C29: an instruction is executed, sent to memory or answered by memory in
\* no cycle before its minimumCommitCycle; its delay expression is
\* evaluated only while it still has one, and is then gone for good; and a
\* minimumCommitCycle once set is not moved by later commit attempts
C29_CommitGate ==
    [][/\ \A i \in DOMAIN calls' :
             (calls'[i].call \in EffectCalls /\ calls'[i].inst # Bubble)
             => insts'[calls'[i].inst].minimumCommitCycle <= calls'[i].cycle
       /\ \A id \in {k \in 1..MaxInsts : insts[k].present} :
             /\ (/\ phase = "idle"
                 /\ phase' = "latch"
                 /\ \E i \in DOMAIN calls' :
                       /\ calls'[i].call = "evalDelayExpr"
                       /\ calls'[i].inst = id)
                  => /\ insts[id].extraCommitDelayExpr >= 0
                     /\ insts'[id].extraCommitDelayExpr = -1
                     /\ Cardinality({i \in DOMAIN calls' :
                                       /\ calls'[i].call = "evalDelayExpr"
                                       /\ calls'[i].inst = id}) = 1
             /\ (insts[id].issueOrder # 0 /\
                 insts[id].extraCommitDelayExpr = -1)
                  => insts'[id].extraCommitDelayExpr = -1
             /\ insts[id].minimumCommitCycle # 0
                  => insts'[id].minimumCommitCycle =
                         insts[id].minimumCommitCycle]_vars

\* C29 witness: an IntDiv instruction, whose fixed delay and delay
\* expression hold it for two cycles at the tail of its unit, is executed
\* in the very cycle of its minimumCommitCycle
C29_Witness ==
    \E i \in CallsOf("execute") :
        /\ insts[calls[i].inst].opClass = "IntDiv"
        /\ insts[calls[i].inst].minimumCommitCycle = calls[i].cycle
        /\ calls[i].cycle >= 2
        /\ insts[calls[i].inst].extraCommitDelayExpr = -1
        /\ insts[calls[i].inst].extraCommitDelay = 0

\* The redirects written in this step: calls of updateBranchData
RedirectsNow == {j \in DOMAIN calls' : calls'[j].call = "updateBranchData"}

\* Instruction id was given a SuspendThread redirect in this step
SuspendEmitted(id) ==
    \E j \in RedirectsNow :
        /\ calls'[j].inst = id
        /\ calls'[j].arg.branch.reason = "SuspendThread"

\* Instruction id produced a redirect of its own in this step
RedirectProduced(id) ==
    \E j \in RedirectsNow :
        /\ calls'[j].inst = id
        /\ calls'[j].arg.branch.reason # "SuspendThread"

\* A redirect was written in this step before instruction id was executed
RedirectBefore(id) ==
    \E j \in RedirectsNow : \E i \in DOMAIN calls' :
        /\ calls'[i].call = "execute"
        /\ calls'[i].inst = id
        /\ j < i

\* The instructions executed in this step that suspend their thread
SuspendingNow ==
    {id \in 1..MaxInsts :
        /\ phase = "idle"
        /\ phase' = "latch"
        /\ insts[id].present
        /\ insts[id].oSuspend
        /\ \E i \in DOMAIN calls' :
              calls'[i].call = "execute" /\ calls'[i].inst = id}

\* With the thread suspended and no interrupt pending, commitInst completes
\* no instruction: nothing is executed, sent to memory or invoked in the
\* step, and after an instruction that suspends the thread nothing more is
SuspendedCompletesNothing ==
    /\ (phase = "idle" /\ phase' = "latch" /\ ~interrupt /\
        thread.status = "Suspended")
          => \A i \in DOMAIN calls' :
                calls'[i].call \notin {"execute", "initiateAcc", "invoke"}
    /\ \A id \in SuspendingNow :
          ~interrupt
          => \A i, j \in DOMAIN calls' :
                (/\ calls'[i].call = "execute"
                 /\ calls'[i].inst = id
                 /\ i < j)
                => calls'[j].call \notin {"execute", "initiateAcc", "invoke"}

IssuesOnlyMicroops ==
    /\ phase = "idle"
    /\ phase' = "idle"
    /\ calls' # <<>>
    /\ calls'[Len(calls')].call = "issueReturns"
    /\ calls'[Len(calls')].arg.only_issue_microops
    /\ inputBuffer # <<>>

\* C31: in a call of issue restricted to microops, no non-fault instruction
\* is issued that is not a non-first microop, and a non-first microop at
\* the head of the input, of the current stream, that some functional unit
\* accepts, is issued
C31_OnlyMicroops ==
    [][IssuesOnlyMicroops =>
          /\ \A i \in IssuedNow :
                \/ insts[calls'[i].inst].isFault
                \/ /\ isMicroop(insts[calls'[i].inst])
                   /\ ~isFirstMicroop(insts[calls'[i].inst])
          /\ LET id == inputBuffer[1][inputIndex + 1]
             IN  (/\ id # Bubble
                  /\ thread.status # "Suspended"
                  /\ insts[id].streamSeqNum = streamSeqNum
                  /\ isMicroop(insts[id])
                  /\ ~isFirstMicroop(insts[id])
                  /\ \E f \in 0..(numFuncUnits - 1) : fuAccepts(Me, id, f))
                 => \E i \in IssuedNow : calls'[i].inst = id]_vars

\* The instructions that issue discarded in this step
DiscardedNow ==
    {calls'[i].inst : i \in {j \in DOMAIN calls' :
                                calls'[j].call = "issueDiscard"}}

\* The input slots this step has stepped over
SteppedOver ==
    Len(PendingInput(inputBuffer, inputIndex)) -
        Len(PendingInput(inputBuffer', inputIndex'))

\* C32: an instruction that issue discards is left as it was, is in no
\* functional unit, in neither inFlightInsts nor inFUMemInsts, writes no
\* scoreboard entry and is no memory barrier of the LSQ; the value issue
\* returns does not count it; and the instruction after it in its batch,
\* when of an old stream too, is discarded in the same call
C32_DiscardFree ==
    [][(phase = "idle" /\ phase' = "latch") =>
          /\ \A id \in DiscardedNow :
                /\ insts'[id] = insts[id]
                /\ insts[id].issueOrder = 0
                /\ \A f \in DOMAIN funcUnits' :
                      \A k \in DOMAIN funcUnits'[f].pipe :
                          funcUnits'[f].pipe[k] # id
                /\ \A k \in 1..Len(inFlightInsts') : inFlightInsts'[k] # id
                /\ \A k \in 1..Len(inFUMemInsts') : inFUMemInsts'[k] # id
                /\ \A r \in DOMAIN scoreboard' :
                      scoreboard'[r].writingInst # id
                /\ lsq'.lastMemBarrier # id
          /\ \A i \in DOMAIN calls' :
                calls'[i].call = "issueReturns"
                => calls'[i].arg.num_insts_issued =
                       SteppedOver - Cardinality(DiscardedNow)
          /\ \A i \in DOMAIN calls' :
                (/\ calls'[i].call = "issueDiscard"
                 /\ inputBuffer # <<>>
                 /\ inputIndex = 0
                 /\ inputBuffer[1][1] = calls'[i].inst
                 /\ inputBuffer[1][2] # Bubble
                 /\ insts[inputBuffer[1][2]].streamSeqNum # calls'[i].stream
                 /\ thread'.status # "Suspended")
                => inputBuffer[1][2] \in DiscardedNow]_vars

\* C32 witness: issue has discarded a memory barrier and a load of an old
\* stream in one call, returned 0, and neither is anywhere in the engine
C32_Witness ==
    /\ phase = "latch"
    /\ \E i, j \in CallsOf("issueDiscard") :
          /\ i < j
          /\ insts[calls[i].inst].isMemBarrier
          /\ insts[calls[j].inst].isMemRef
          /\ insts[calls[j].inst].issueOrder = 0
          /\ lsq.lastMemBarrier # calls[i].inst
    /\ \E i \in CallsOf("issueReturns") : calls[i].arg.num_insts_issued = 0
    /\ inFUMemInsts = <<>>

\* The instructions this step has sent to the memory queue
SentNow ==
    {id \in DOMAIN insts :
        /\ insts[id].present
        /\ \E k \in DOMAIN lsq'.transfers : lsq'.transfers[k].inst = id
        /\ \A k \in DOMAIN lsq.transfers : lsq.transfers[k].inst # id}

AnyRedirects == CallsOf("updateBranchData")

\* C34 as stated: every redirect, CorrectlyPredictedBranch included, has
\* raised streamSeqNum, and one caused by an instruction carries the
\* instruction's predictionSeqNum
C34_EveryReasonBumps ==
    \A i \in AnyRedirects :
        /\ calls[i].arg.branch.reason # "NoBranch"
        /\ calls[i].stream = calls[i].arg.before + 1
        /\ calls[i].inst # Bubble
              => calls[i].arg.branch.newPredictionSeqNum =
                     insts[calls[i].inst].predictionSeqNum

\* C34 amended: a redirect has a reason other than NoBranch; it has raised
\* streamSeqNum by one unless the reason is CorrectlyPredictedBranch, which
\* leaves streamSeqNum as it was; it carries the streamSeqNum it leaves and
\* the predictionSeqNum of the instruction that caused it, or, caused by a
\* bubble, the lastPredictionSeqNum of the moment: that of the last
\* instruction committed
C34_StreamChangeBumps ==
    /\ [](\A i \in AnyRedirects :
             /\ calls[i].arg.branch.reason # "NoBranch"
             /\ calls[i].stream =
                    IF calls[i].arg.branch.reason = "CorrectlyPredictedBranch"
                    THEN calls[i].arg.before
                    ELSE calls[i].arg.before + 1
             /\ calls[i].arg.branch.newStreamSeqNum = calls[i].stream
             /\ calls[i].inst # Bubble
                   => calls[i].arg.branch.newPredictionSeqNum =
                          insts[calls[i].inst].predictionSeqNum)
    /\ [][\A i \in DOMAIN calls' :
             (calls'[i].call = "updateBranchData" /\ calls'[i].inst = Bubble)
             => calls'[i].arg.branch.newPredictionSeqNum =
                    IF calls'[i].arg.branch.reason = "HaltFetch"
                    THEN lastPredictionSeqNum'
                    ELSE lastPredictionSeqNum]_vars

\* C34 witness: a correctly predicted branch that carries a predictionSeqNum
\* other than the first has made its redirect and streamSeqNum is as it was
C34_Witness ==
    /\ phase = "latch"
    /\ \E i \in AnyRedirects :
          /\ calls[i].arg.branch.reason = "CorrectlyPredictedBranch"
          /\ calls[i].stream = calls[i].arg.before
          /\ calls[i].arg.branch.newPredictionSeqNum # firstPredictionSeqNum
          /\ streamSeqNum = calls[i].arg.before
          /\ out = calls[i].arg.branch
          /\ lastPredictionSeqNum = calls[i].arg.branch.newPredictionSeqNum

\* The conditions C35 names, in the state an evaluate leaves
IssuedSome ==
    \E i \in DOMAIN calls' :
        calls'[i].call = "issueReturns" /\ calls'[i].arg.num_insts_issued # 0

IssuedAnInst == \E i \in DOMAIN calls' : calls'[i].call = "issue"

UnitCanMove ==
    \E i \in 0..(numFuncUnits - 1) :
        occupancy(funcUnits'[i]) # 0 /\ ~funcUnits'[i].stalled

NextInput ==
    IF inputBuffer' # <<>> THEN inputBuffer'[1][inputIndex' + 1] ELSE Bubble

CanIssueNext ==
    /\ NextInput # Bubble
    /\ \/ insts'[NextInput].isFault
       \/ /\ thread'.status # "Suspended"
          /\ \E i \in 0..(numFuncUnits - 1) :
                /\ ~funcUnits'[i].stalled
                /\ provides(i, insts'[NextInput].opClass)
                /\ canInstIssue(scoreboard', insts'[NextInput], curCycle')

HeadMightCommit ==
    /\ inFlightInsts' # <<>>
    /\ \/ isNoCostInst(insts'[inFlightInsts'[1]])
       \/ /\ funcUnits'[insts'[inFlightInsts'[1]].fuIndex].stalled
          /\ front(funcUnits'[insts'[inFlightInsts'[1]].fuIndex]) =
                 inFlightInsts'[1]
       \/ findResponse(lsq', inFlightInsts'[1])

HaltedFetch ==
    \E i \in DOMAIN calls' :
        /\ calls'[i].call = "updateBranchData"
        /\ calls'[i].arg.branch.reason = "HaltFetch"

EvaluateStep == phase = "idle" /\ phase' = "latch" /\ ~aborted'

InUnit(i) == {funcUnits[i].pipe[k] : k \in DOMAIN funcUnits[i].pipe} \ {Bubble}

\* Instruction id has been completed by this step: popped from
\* inFlightInsts, committed or discarded, or sent to the memory queue
CompletedNow(id) ==
    \/ \E a \in DOMAIN retired' : a > Len(retired) /\ retired'[a].inst = id
    \/ ~insts[id].inLSQ /\ insts'[id].inLSQ

\* C36: between evaluates a unit is stalled exactly when an instruction is
\* at its tail; an instruction leaves its unit only in a step that completes
\* it, and only from the tail; so every instruction in inFlightInsts that is
\* neither no-cost nor in the memory queue is in the unit it was issued to
C36_NothingLost ==
    /\ [](\A i \in 0..(numFuncUnits - 1) :
             funcUnits[i].stalled <=> front(funcUnits[i]) # Bubble)
    /\ [](\A k \in DOMAIN inFlightInsts :
             (~isNoCostInst(insts[inFlightInsts[k]]) /\
              ~insts[inFlightInsts[k]].inLSQ)
             => inFlightInsts[k] \in InUnit(insts[inFlightInsts[k]].fuIndex))
    /\ [][\A i \in 0..(numFuncUnits - 1) : \A id \in InUnit(i) :
             (\A k \in DOMAIN funcUnits'[i].pipe : funcUnits'[i].pipe[k] # id)
             => /\ front(funcUnits[i]) = id
                /\ funcUnits[i].stalled
                /\ CompletedNow(id)]_vars

\* C36 witness: an instruction waits stalled at the tail of its unit, behind
\* an older head that is still on its way through another unit
C36_Witness ==
    /\ phase = "latch"
    /\ Len(inFlightInsts) >= 2
    /\ \E i \in 0..(numFuncUnits - 1) :
          /\ funcUnits[i].stalled
          /\ front(funcUnits[i]) = inFlightInsts[2]
          /\ insts[inFlightInsts[2]].issueOrder > 0
          /\ ~insts[inFlightInsts[2]].isMemRef
    /\ ~isNoCostInst(insts[inFlightInsts[1]])
    /\ inFlightInsts[1] \in InUnit(insts[inFlightInsts[1]].fuIndex)
    /\ front(funcUnits[insts[inFlightInsts[1]].fuIndex]) = Bubble

\* C37: the instructions a step pops from inFlightInsts are the ones at its
\* head, in order: each pop completes the instruction at the head of the
\* moment, the one whose unit is unstalled and which sets
\* lastCommitWasEndOfMacroop
C37_PopsHead ==
    /\ [](\A a \in DOMAIN retired : retired[a].inst = retired[a].head)
    /\ [][NewRetired # {} =>
             /\ \A a \in NewRetired :
                   /\ a - Len(retired) <= Len(inFlightInsts)
                   /\ retired'[a].inst = inFlightInsts[a - Len(retired)]
                   /\ \A k \in DOMAIN inFlightInsts' :
                         inFlightInsts'[k] # retired'[a].inst
                   /\ \A i \in 0..(numFuncUnits - 1) :
                         front(funcUnits'[i]) # retired'[a].inst
             /\ lastCommitWasEndOfMacroop' =
                    (\/ insts[retired'[Len(retired')].inst].isFault
                     \/ isLastOpInInst(insts[retired'[Len(retired')].inst]))
         ]_vars

\* C37 witness: under the discard flag of a drain a load that could issue
\* early is discarded from the head of inFlightInsts, after an older
\* instruction that is not a memory reference
C37_Witness ==
    /\ phase = "latch"
    /\ \E a, b \in DOMAIN retired :
          /\ a < b
          /\ retired[b].cycle = curCycle - 1
          /\ retired[b].drainState = "DrainAllInsts"
          /\ retired[b].discarded
          /\ insts[retired[b].inst].isMemRef
          /\ insts[retired[b].inst].canEarlyIssue
          /\ ~insts[retired[b].inst].inLSQ
          /\ retired[a].drainState = "DrainAllInsts"
          /\ ~insts[retired[a].inst].isMemRef

\* C38 as stated: an evaluate that changes streamSeqNum raises it by one and
\* leaves on the output a stream-changing redirect that carries the new
\* streamSeqNum, whatever the drain state
C38_StreamDelivered ==
    [][(phase = "idle" /\ phase' = "latch" /\ streamSeqNum' # streamSeqNum)
       => /\ streamSeqNum' = streamSeqNum + 1
          /\ isStreamChange(out'.reason)
          /\ out'.newStreamSeqNum = streamSeqNum']_vars

\* The issues of the evaluate this step makes
IssuesNow == {i \in DOMAIN calls' : calls'[i].call = "issue"}

\* An issue call has stopped behind a single instruction issued into a unit,
\* short of both limits, in front of an instruction of its batch that
\* cannot fail to issue: a no-cost one of the engine's stream, the thread
\* running
StoppedShort ==
    /\ Cardinality(IssuesNow) = 1
    /\ \A i \in DOMAIN calls' : calls'[i].call # "issueDiscard"
    /\ \A i \in IssuesNow :
          /\ calls'[i].arg.fu \in 0..(numFuncUnits - 1)
          /\ ~insts'[calls'[i].inst].isMemRef
          /\ inputBuffer' # <<>>
          /\ inputIndex' >= 1
          /\ inputBuffer'[1][inputIndex'] = calls'[i].inst
    /\ 1 < issueLimit
    /\ 0 < memoryIssueLimit
    /\ NextInput # Bubble
    /\ isNoCostInst(insts'[NextInput])
    /\ insts'[NextInput].streamSeqNum = streamSeqNum'
    /\ streamSeqNum' = streamSeqNum
    /\ thread'.status = "Active"
    /\ thread.status = "Active"

\* C39 as stated: an issue call that has issued an instruction into a unit,
\* whichever it is, goes on to the next instruction of its batch while the
\* limits are unmet, so it never stops in front of an instruction that
\* cannot fail to issue
C39_GoesOn == [][EvaluateStep => ~StoppedShort]_vars

\* This step is an evaluate that finds a redirect waiting on the output
PendingAtStart == EvaluateStep /\ out.reason # "NoBranch"

\* The evaluate of this step has run neither commit nor issue
NoCommitNoIssue ==
    /\ \A i \in DOMAIN calls' :
          calls'[i].call \notin
              {"issue", "issueDiscard", "issueReturns", "execute",
               "initiateAcc", "completeAcc", "handleMemResponse", "invoke",
               "tryToBranch"}
    /\ retired' = retired
    /\ inFlightInsts' = inFlightInsts
    /\ inFUMemInsts' = inFUMemInsts
    /\ inputBuffer' = inputBuffer
    /\ inputIndex' = inputIndex
    /\ scoreboard' = scoreboard

InterruptTaken == \E i \in DOMAIN calls' : calls'[i].call = "interrupt"

====
